---- MODULE Spec2Model ----
(***************************************************************************)
(* A model of checkpoint-redis: the RedisSaver of src/redis-saver.ts and   *)
(* the key codec and helpers of src/utils.ts, over a model of the Redis    *)
(* commands they issue (HSET, EXPIRE, HGETALL, KEYS, DEL) and of the       *)
(* passing of time (key expiry).                                           *)
(*                                                                         *)
(* A JavaScript string is a sequence of one-character strings, so that     *)
(* join, split, the glob matching of KEYS and the two string orders the    *)
(* code uses (the operators < and >, and localeCompare) are computed and   *)
(* not assumed.                                                            *)
(***************************************************************************)
EXTENDS Integers, Sequences, FiniteSets, TLC

VARIABLES
  db,    \* the Redis keyspace: key |-> [hash, ttl]
  last   \* the last call made on a saver, with its arguments and its outcome

vars == <<db, last>>

-----------------------------------------------------------------------------
(* JavaScript values *)

\* undefined where a string is expected: a value no sequence of characters is
\* equal to
Undefined == <<"undefined">>

\* undefined where an object is expected (a config, a checkpoint, a tuple)
UndefinedObject == [undefined |-> TRUE]

\* a thrown error
Error(kind) == [error |-> kind]

IsError(r) == "error" \in DOMAIN r

\* this.ttl and options.limit are numbers or undefined
NumUndefined == -1

\* !x for a string or undefined
Falsy(x) == x = Undefined \/ x = <<>>

\* !n for a number or undefined
FalsyNum(n) == n = NumUndefined \/ n = 0

\* the code units of the characters the model uses
CharCodes ==
  { <<"\"", 34>>, <<"*", 42>>, <<",", 44>>, <<"0", 48>>, <<"1", 49>>,
    <<"2", 50>>, <<"3", 51>>, <<"4", 52>>, <<"5", 53>>, <<"6", 54>>,
    <<"7", 55>>, <<"8", 56>>, <<"9", 57>>, <<":", 58>>, <<"B", 66>>,
    <<"a", 97>>, <<"b", 98>>, <<"c", 99>>, <<"e", 101>>, <<"h", 104>>,
    <<"i", 105>>, <<"k", 107>>, <<"m", 109>>, <<"n", 110>>, <<"o", 111>>,
    <<"p", 112>>, <<"r", 114>>, <<"s", 115>>, <<"t", 116>>, <<"w", 119>>,
    <<"x", 120>>, <<"y", 121>>, <<"{", 123>>, <<"}", 125>> }

CodeOfChar ==
  [c \in {p[1] : p \in CharCodes} |-> (CHOOSE p \in CharCodes : p[1] = c)[2]]

CharCode(c) == CodeOfChar[c]

\* the character of a byte; U+FFFD where the model has no character
CharOfCode ==
  [n \in 0..255 |->
     IF \E p \in CharCodes : p[2] = n
       THEN (CHOOSE p \in CharCodes : p[2] = n)[1]
       ELSE "\\uFFFD"]

CharOf(n) == CharOfCode[n]

Digits == <<"0", "1", "2", "3", "4", "5", "6", "7", "8", "9">>

\* Number.prototype.toString for a non-negative integer
RECURSIVE NumToString(_)
NumToString(n) ==
  IF n < 10 THEN <<Digits[n + 1]>>
  ELSE NumToString(n \div 10) \o <<Digits[(n % 10) + 1]>>

DigitChars == {Digits[i] : i \in 1..10}

IsDigit(c) == c \in DigitChars

DigitVal(c) == CharCode(c) - 48

NaN == -2

\* parseInt(s, 10) for a string without sign or blanks: the value of the
\* longest prefix of digits, NaN when there is none
RECURSIVE ParseIntFrom(_, _)
ParseIntFrom(s, acc) ==
  IF s = <<>> \/ ~IsDigit(Head(s)) THEN acc
  ELSE ParseIntFrom(Tail(s), acc * 10 + DigitVal(Head(s)))

ParseInt(s) ==
  IF s = Undefined \/ s = <<>> \/ ~IsDigit(Head(s)) THEN NaN ELSE ParseIntFrom(s, 0)

\* Array.prototype.join: undefined and null elements are joined as ""
RECURSIVE Join(_, _)
Join(parts, sep) ==
  IF parts = <<>> THEN <<>>
  ELSE LET h == IF Head(parts) = Undefined THEN <<>> ELSE Head(parts)
       IN  IF Len(parts) = 1 THEN h ELSE h \o sep \o Join(Tail(parts), sep)

\* String.prototype.split on a one-character separator
RECURSIVE SplitFrom(_, _, _)
SplitFrom(s, sep, cur) ==
  IF s = <<>> THEN <<cur>>
  ELSE IF Head(s) = sep THEN <<cur>> \o SplitFrom(Tail(s), sep, <<>>)
  ELSE SplitFrom(Tail(s), sep, Append(cur, Head(s)))

Split(s, sep) == SplitFrom(s, sep, <<>>)

\* array destructuring: the i-th element, undefined when the array is shorter
Nth(arr, i) == IF i <= Len(arr) THEN arr[i] ELSE Undefined

\* the order of two sequences of numbers: the first difference decides, a
\* proper prefix is smaller
RECURSIVE NumSeqLess(_, _)
NumSeqLess(a, b) ==
  IF b = <<>> THEN FALSE
  ELSE IF a = <<>> THEN TRUE
  ELSE IF Head(a) = Head(b) THEN NumSeqLess(Tail(a), Tail(b))
  ELSE Head(a) < Head(b)

CodeUnits(s) == [i \in 1..Len(s) |-> CharCode(s[i])]

\* a < b for two strings: comparison of code units
StrLess(a, b) == NumSeqLess(CodeUnits(a), CodeUnits(b))

\* a < b where b may be undefined: undefined converts to NaN and every
\* comparison with it is false
JsLess(a, b) == IF a = Undefined \/ b = Undefined THEN FALSE ELSE StrLess(a, b)

\* the collation keys of localeCompare (ICU root collation): the primary
\* weight orders punctuation before digits before letters and ignores case;
\* the tertiary weight puts a lower-case letter before its upper-case form
PrimaryWeight(c) ==
  IF c \in {"B", "b"} THEN 2 * CharCode("b")
  ELSE IF IsDigit(c) THEN CharCode(c)
  ELSE IF CharCode(c) >= 97 THEN 2 * CharCode(c)
  ELSE IF CharCode(c) >= 65 THEN 2 * (CharCode(c) + 32)
  ELSE 0

TertiaryWeight(c) == IF CharCode(c) >= 65 /\ CharCode(c) <= 90 THEN 1 ELSE 0

PrimaryKey(s) == [i \in 1..Len(s) |-> PrimaryWeight(s[i])]

TertiaryKey(s) == [i \in 1..Len(s) |-> TertiaryWeight(s[i])]

\* a.localeCompare(b) < 0
LocaleLess(a, b) ==
  \/ NumSeqLess(PrimaryKey(a), PrimaryKey(b))
  \/ PrimaryKey(a) = PrimaryKey(b) /\ NumSeqLess(TertiaryKey(a), TertiaryKey(b))

\* a.localeCompare(b): -1, 0 or 1
localeCompare(a, b) ==
  IF LocaleLess(a, b) THEN -1 ELSE IF LocaleLess(b, a) THEN 1 ELSE 0

-----------------------------------------------------------------------------
(* src/utils.ts: the key codec *)

REDIS_KEY_SEPARATOR == <<":">>

CheckpointLiteral == <<"c", "h", "e", "c", "k", "p", "o", "i", "n", "t">>

WritesLiteral == <<"w", "r", "i", "t", "e", "s">>

Star == <<"*">>

\* null, passed as idx
NullIdx == -1

\* makeRedisCheckpointKey with the last two fields in the wrong order
makeKeyIdBeforeNs(threadId, checkpointNs, checkpointId) ==
  Join(<<CheckpointLiteral, threadId, checkpointId, checkpointNs>>, REDIS_KEY_SEPARATOR)

makeRedisCheckpointKey(threadId, checkpointNs, checkpointId) ==
  Join(<<CheckpointLiteral, threadId, checkpointNs, checkpointId>>, REDIS_KEY_SEPARATOR)

makeRedisCheckpointWritesKey(threadId, checkpointNs, checkpointId, taskId, idx) ==
  LET key == <<WritesLiteral, threadId, checkpointNs, checkpointId, taskId>>
  IN  IF idx = NullIdx THEN Join(key, REDIS_KEY_SEPARATOR)
      ELSE Join(Append(key, NumToString(idx)), REDIS_KEY_SEPARATOR)

\* the error a parser throws
KeyFormatError == Error("KeyFormatError")

\* parseRedisCheckpointKey taking all that follows the namespace as the id
parseKeyIdToEnd(redisKey) ==
  LET parts == Split(redisKey, ":")
  IN  IF Nth(parts, 1) /= CheckpointLiteral THEN KeyFormatError
      ELSE [thread_id |-> Nth(parts, 2), checkpoint_ns |-> Nth(parts, 3),
            checkpoint_id |->
              IF Len(parts) >= 4
                THEN Join(SubSeq(parts, 4, Len(parts)), REDIS_KEY_SEPARATOR)
                ELSE Undefined]

\* parseRedisCheckpointKey without the check of the leading literal
parseKeyAnyLiteral(redisKey) ==
  LET parts == Split(redisKey, ":")
  IN  [thread_id |-> Nth(parts, 2), checkpoint_ns |-> Nth(parts, 3),
       checkpoint_id |-> Nth(parts, 4)]

parseRedisCheckpointKey(redisKey) ==
  LET parts == Split(redisKey, ":")
  IN  IF Nth(parts, 1) /= CheckpointLiteral THEN KeyFormatError
      ELSE [thread_id |-> Nth(parts, 2), checkpoint_ns |-> Nth(parts, 3),
            checkpoint_id |-> Nth(parts, 4)]

\* parseRedisCheckpointWritesKey reading idx one segment too far
parseWritesKeyIdxBeyond(redisKey) ==
  LET parts == Split(redisKey, ":")
  IN  IF Nth(parts, 1) /= WritesLiteral THEN KeyFormatError
      ELSE [thread_id |-> Nth(parts, 2), checkpoint_ns |-> Nth(parts, 3),
            checkpoint_id |-> Nth(parts, 4), task_id |-> Nth(parts, 5),
            idx |-> Nth(parts, 7)]

parseRedisCheckpointWritesKey(redisKey) ==
  LET parts == Split(redisKey, ":")
  IN  IF Nth(parts, 1) /= WritesLiteral THEN KeyFormatError
      ELSE [thread_id |-> Nth(parts, 2), checkpoint_ns |-> Nth(parts, 3),
            checkpoint_id |-> Nth(parts, 4), task_id |-> Nth(parts, 5),
            idx |-> Nth(parts, 6)]

-----------------------------------------------------------------------------
(* The serializer (serde) and the way a serialized value reaches Redis *)

\* JSON.stringify of the values the model uses: a checkpoint {id, v}, a
\* metadata {step} and a string (the value of a pending write)
Stringify(value) ==
  IF "id" \in DOMAIN value
    THEN <<"{">> \o <<"\"">> \o value.id \o <<"\"">> \o <<",">> \o NumToString(value.v) \o <<"}">>
  ELSE IF "step" \in DOMAIN value
    THEN <<"{">> \o NumToString(value.step) \o <<"}">>
  ELSE <<"\"">> \o value.str \o <<"\"">>

\* TextEncoder.encode, for the characters of the model (one byte each)
TextEncode(text) == CodeUnits(text)

\* TextDecoder.decode
TextDecode(bytes) == [i \in 1..Len(bytes) |-> CharOf(bytes[i])]

\* serde.dumpsTyped of the default serializer: the type tag and the bytes
dumpsTyped(value) == <<<<"j", "s", "o", "n">>, TextEncode(Stringify(value))>>

\* JSON.parse of such a text; a SyntaxError on any other text
JsonParse(text) ==
  LET n == Len(text)
  IN  IF n >= 2 /\ text[1] = "\"" /\ text[n] = "\""
        THEN [str |-> SubSeq(text, 2, n - 1)]
      ELSE IF n >= 3 /\ text[1] = "{" /\ text[n] = "}" /\ text[2] /= "\""
        THEN IF \A i \in 2..(n - 1) : IsDigit(text[i])
               THEN [step |-> ParseInt(SubSeq(text, 2, n - 1))]
               ELSE Error("SyntaxError")
      ELSE IF n >= 3 /\ text[1] = "{" /\ text[n] = "}"
                /\ \E q \in 3..(n - 1) : text[q] = "\""
        THEN LET q == CHOOSE i \in 3..(n - 1) :
                        text[i] = "\"" /\ \A j \in 3..(i - 1) : text[j] /= "\""
             IN  IF q + 2 <= n - 1 /\ text[q + 1] = ","
                    /\ \A i \in (q + 2)..(n - 1) : IsDigit(text[i])
                   THEN [id |-> SubSeq(text, 3, q - 1),
                         v |-> ParseInt(SubSeq(text, q + 2, n - 1))]
                   ELSE Error("SyntaxError")
      ELSE Error("SyntaxError")

JsonTag == <<"j", "s", "o", "n">>

\* serde.loadsTyped of the default serializer, for a type tag and a string
loadsTyped(type, text) ==
  IF type = JsonTag THEN JsonParse(text) ELSE Error("UnknownTypeError")

\* what ioredis sends for a Uint8Array argument: String(bytes), the decimal
\* numbers joined by commas
BytesToRedisString(bytes) ==
  Join([i \in 1..Len(bytes) |-> NumToString(bytes[i])], <<",">>)

\* the conversion of a number to an element of a Uint8Array
ToUint8(n) == IF n = NaN THEN 0 ELSE n % 256

\* src/utils.ts decodeCommaSeperatedString, for a string; it throws a
\* TypeError on undefined, which the callers below check first
decodeCommaSeperatedString(str) ==
  LET numbers == Split(str, ",")
  IN  TextDecode([i \in 1..Len(numbers) |-> ToUint8(ParseInt(numbers[i]))])

-----------------------------------------------------------------------------
(* The Redis commands the saver issues, on a keyspace d: key |-> [hash, ttl] *)

\* the ttl of a key without expiry, as the TTL command reports it
NoExpiry == -1

\* a hash is a set of <<field, value>> pairs with one pair per field
HashFields(hash) == {p[1] : p \in hash}

HashGet(hash, field) ==
  IF field \in HashFields(hash)
    THEN (CHOOSE p \in hash : p[1] = field)[2]
    ELSE Undefined

\* HSETNX for every field: a field the hash already holds keeps its value
HsetKeepFields(d, key, fields) ==
  IF key \in DOMAIN d
    THEN [d EXCEPT ![key].hash =
            @ \cup {p \in fields : p[1] \notin HashFields(@)}]
    ELSE [k \in DOMAIN d \cup {key} |->
            IF k = key THEN [hash |-> fields, ttl |-> NoExpiry] ELSE d[k]]

\* HSET key field value [field value ...]: creates the key when missing,
\* replaces the fields given, keeps the other fields and the ttl
HSET(d, key, fields) ==
  IF key \in DOMAIN d
    THEN [d EXCEPT ![key].hash =
            {p \in @ : p[1] \notin HashFields(fields)} \cup fields]
    ELSE [k \in DOMAIN d \cup {key} |->
            IF k = key THEN [hash |-> fields, ttl |-> NoExpiry] ELSE d[k]]

\* EXPIRE key seconds NX: only a key without expiry gets one
ExpireIfPersistent(d, key, seconds) ==
  IF key \in DOMAIN d /\ d[key].ttl = NoExpiry
    THEN [d EXCEPT ![key].ttl = seconds] ELSE d

\* EXPIRE key seconds: no effect on a missing key
EXPIRE(d, key, seconds) ==
  IF key \in DOMAIN d THEN [d EXCEPT ![key].ttl = seconds] ELSE d

\* HGETALL key: the empty object for a missing key
HGETALL(d, key) == IF key \in DOMAIN d THEN d[key].hash ELSE {}

\* DEL key [key ...]
DEL(d, keys) == [k \in DOMAIN d \ keys |-> d[k]]

\* glob matching of KEYS: * matches any run of characters, the separator
\* included; every other character of the model matches itself
RECURSIVE GlobMatch(_, _)
GlobMatch(pattern, key) ==
  IF pattern = <<>> THEN key = <<>>
  ELSE IF Head(pattern) = "*"
    THEN \/ GlobMatch(Tail(pattern), key)
         \/ key /= <<>> /\ GlobMatch(pattern, Tail(key))
  ELSE key /= <<>> /\ Head(key) = Head(pattern)
       /\ GlobMatch(Tail(pattern), Tail(key))

\* the keys KEYS pattern returns, as a set
MatchingKeys(d, pattern) == {k \in DOMAIN d : GlobMatch(pattern, k)}

\* the orders in which KEYS may return a set of keys: Redis promises none
Enumerations(keys) ==
  {order \in [1..Cardinality(keys) -> keys] :
     \A i, j \in 1..Cardinality(keys) : i /= j => order[i] /= order[j]}

\* one second passes: a key with an expiry loses one second of it and is
\* removed when none is left
Expire(d) ==
  [k \in {key \in DOMAIN d : d[key].ttl /= 1} |->
     IF d[k].ttl = NoExpiry THEN d[k] ELSE [d[k] EXCEPT !.ttl = @ - 1]]

-----------------------------------------------------------------------------
(* src/redis-saver.ts: RedisSaver *)

\* a config is the record of its configurable fields; a field that is
\* missing reads as undefined, and so does every field of a missing config
IsUndefinedObject(o) == "undefined" \in DOMAIN o

Configurable(config, field) ==
  IF field \in DOMAIN config THEN config[field] ELSE Undefined

\* x ?? y
Nullish(x, y) == IF x = Undefined THEN y ELSE x

\* the outcome of a call: the keyspace it leaves and what it returns or throws
Outcome(d, res) == [db |-> d, res |-> res]

\* put(config, checkpoint, metadata) of a saver whose this.ttl is ttl
put(d, ttl, config, checkpoint, metadata) ==
  IF IsUndefinedObject(config) THEN Outcome(d, Error("ValidationError"))
  ELSE IF IsUndefinedObject(checkpoint) THEN Outcome(d, Error("ValidationError"))
  ELSE IF IsUndefinedObject(metadata) THEN Outcome(d, Error("ValidationError"))
  ELSE IF Falsy(checkpoint.id) THEN Outcome(d, Error("ValidationError"))
  ELSE
    LET checkpoint_id == checkpoint.id
        thread_id == Configurable(config, "thread_id")
        checkpoint_ns == Nullish(Configurable(config, "checkpoint_ns"), <<>>)
        parent_checkpoint_id == Configurable(config, "checkpoint_id")
    IN
    IF Falsy(thread_id) THEN Outcome(d, Error("ValidationError"))
    ELSE
      LET key == makeRedisCheckpointKey(thread_id, checkpoint_ns, checkpoint_id)
          dumpedCheckpoint == dumpsTyped(checkpoint)
          dumpedMetadata == dumpsTyped(metadata)
          checkpointType == dumpedCheckpoint[1]
          metadataType == dumpedMetadata[1]
      IN
      IF checkpointType /= metadataType
        THEN Outcome(d, Error("SerializationMismatchError"))
      ELSE
        LET data == { <<"checkpoint", BytesToRedisString(dumpedCheckpoint[2])>>,
                      <<"type", checkpointType>>,
                      <<"metadata_type", metadataType>>,
                      <<"metadata", BytesToRedisString(dumpedMetadata[2])>>,
                      <<"parent_checkpoint_id", Nullish(parent_checkpoint_id, <<>>)>> }
            written == HSET(d, key, data)
            expiring == IF ~FalsyNum(ttl) THEN EXPIRE(written, key, ttl) ELSE written
        IN  Outcome(expiring,
                    [thread_id |-> thread_id, checkpoint_ns |-> checkpoint_ns,
                     checkpoint_id |-> checkpoint_id])

\* src/utils.ts dumpWrites: each [channel, value] becomes {channel, type, value}
dumpWrites(writes) ==
  [i \in 1..Len(writes) |->
     LET dumped == dumpsTyped(writes[i].value)
     IN  { <<"channel", writes[i].channel>>,
           <<"type", dumped[1]>>,
           <<"value", BytesToRedisString(dumped[2])>> }]

\* the loop of putWrites from position idx + 1 of dumpedWrites on: the hash
\* write and the expire of each key, in array order
RECURSIVE StoreWrites(_, _, _, _, _, _, _, _)
StoreWrites(d, ttl, thread_id, checkpoint_ns, checkpoint_id, task_id, dumpedWrites, idx) ==
  IF idx >= Len(dumpedWrites) THEN d
  ELSE
    LET key == makeRedisCheckpointWritesKey(thread_id, checkpoint_ns,
                                            checkpoint_id, task_id, idx)
        written == HSET(d, key, dumpedWrites[idx + 1])
        expiring == IF ~FalsyNum(ttl) THEN EXPIRE(written, key, ttl) ELSE written
    IN  StoreWrites(expiring, ttl, thread_id, checkpoint_ns, checkpoint_id,
                    task_id, dumpedWrites, idx + 1)

\* what putWrites returns when it does not throw
Void == [void |-> TRUE]

\* putWrites(config, writes, task_id); writes is [isArray, items]
putWrites(d, ttl, config, writes, task_id) ==
  IF IsUndefinedObject(config) THEN Outcome(d, Error("ValidationError"))
  ELSE IF ~writes.isArray THEN Outcome(d, Error("ValidationError"))
  ELSE IF Falsy(task_id) THEN Outcome(d, Error("ValidationError"))
  ELSE
    LET thread_id == Configurable(config, "thread_id")
        checkpoint_ns == Configurable(config, "checkpoint_ns")
        checkpoint_id == Configurable(config, "checkpoint_id")
    IN
    IF thread_id = Undefined \/ checkpoint_ns = Undefined \/ checkpoint_id = Undefined
      THEN Outcome(d, Error("ValidationError"))
    ELSE Outcome(StoreWrites(d, ttl, thread_id, checkpoint_ns, checkpoint_id,
                             task_id, dumpWrites(writes.items), 0),
                 Void)

\* the reduce of _getCheckpointKey with its comparison turned around
RECURSIVE EarliestKey(_, _)
EarliestKey(maxKey, rest) ==
  IF rest = <<>> THEN maxKey
  ELSE
    LET currentKey == Head(rest)
        maxKeyData == parseRedisCheckpointKey(maxKey)
        currentKeyData == parseRedisCheckpointKey(currentKey)
    IN  EarliestKey(IF JsLess(maxKeyData.checkpoint_id, currentKeyData.checkpoint_id)
                      THEN maxKey ELSE currentKey,
                    Tail(rest))

\* the reduce of _getCheckpointKey over all_keys, what KEYS returned
RECURSIVE LatestKey(_, _)
LatestKey(maxKey, rest) ==
  IF rest = <<>> THEN maxKey
  ELSE
    LET currentKey == Head(rest)
        maxKeyData == parseRedisCheckpointKey(maxKey)
        currentKeyData == parseRedisCheckpointKey(currentKey)
    IN  LatestKey(IF JsLess(currentKeyData.checkpoint_id, maxKeyData.checkpoint_id)
                    THEN maxKey ELSE currentKey,
                  Tail(rest))

\* _getCheckpointKey; null is undefined
getCheckpointKey(thread_id, checkpoint_ns, checkpoint_id, all_keys) ==
  IF ~Falsy(checkpoint_id)
    THEN makeRedisCheckpointKey(thread_id, checkpoint_ns, checkpoint_id)
  ELSE IF Len(all_keys) = 0 THEN Undefined
  ELSE LatestKey(Head(all_keys), Tail(all_keys))

\* pendingWrites left out of a call (list passes none)
UndefinedArray == <<UndefinedObject>>

\* the TypeError of reading a property of undefined (str.split in
\* decodeCommaSeperatedString)
TypeError == Error("TypeError")

\* parseRedisCheckpointData with parentConfig built for every stored
\* parent_checkpoint_id, the empty one included
parseParentAlways(key, data, pendingWrites) ==
  LET parsedKey == parseRedisCheckpointKey(key)
  IN
  IF IsError(parsedKey) THEN parsedKey
  ELSE IF HashGet(data, "checkpoint") = Undefined THEN TypeError
  ELSE
    LET thread_id == parsedKey.thread_id
        checkpoint_ns == Nullish(parsedKey.checkpoint_ns, <<>>)
        checkpoint_id == parsedKey.checkpoint_id
        checkpoint == loadsTyped(HashGet(data, "type"),
                        decodeCommaSeperatedString(HashGet(data, "checkpoint")))
    IN
    IF IsError(checkpoint) THEN checkpoint
    ELSE IF HashGet(data, "metadata") = Undefined THEN TypeError
    ELSE
      LET metadata == loadsTyped(HashGet(data, "metadata_type"),
                        decodeCommaSeperatedString(HashGet(data, "metadata")))
          parentCheckpointId == HashGet(data, "parent_checkpoint_id")
      IN
      IF IsError(metadata) THEN metadata
      ELSE [config |-> [thread_id |-> thread_id, checkpoint_ns |-> checkpoint_ns,
                        checkpoint_id |-> checkpoint_id],
            checkpoint |-> checkpoint,
            metadata |-> metadata,
            parentConfig |->
              IF parentCheckpointId /= Undefined
                THEN [thread_id |-> thread_id, checkpoint_ns |-> checkpoint_ns,
                      checkpoint_id |-> parentCheckpointId]
                ELSE UndefinedObject,
            pendingWrites |-> pendingWrites]

\* src/utils.ts parseRedisCheckpointData
parseRedisCheckpointData(key, data, pendingWrites) ==
  LET parsedKey == parseRedisCheckpointKey(key)
  IN
  IF IsError(parsedKey) THEN parsedKey
  ELSE IF HashGet(data, "checkpoint") = Undefined THEN TypeError
  ELSE
    LET thread_id == parsedKey.thread_id
        checkpoint_ns == Nullish(parsedKey.checkpoint_ns, <<>>)
        checkpoint_id == parsedKey.checkpoint_id
        checkpoint == loadsTyped(HashGet(data, "type"),
                        decodeCommaSeperatedString(HashGet(data, "checkpoint")))
    IN
    IF IsError(checkpoint) THEN checkpoint
    ELSE IF HashGet(data, "metadata") = Undefined THEN TypeError
    ELSE
      LET metadata == loadsTyped(HashGet(data, "metadata_type"),
                        decodeCommaSeperatedString(HashGet(data, "metadata")))
          parentCheckpointId == HashGet(data, "parent_checkpoint_id")
      IN
      IF IsError(metadata) THEN metadata
      ELSE [config |-> [thread_id |-> thread_id, checkpoint_ns |-> checkpoint_ns,
                        checkpoint_id |-> checkpoint_id],
            checkpoint |-> checkpoint,
            metadata |-> metadata,
            parentConfig |->
              IF ~Falsy(parentCheckpointId)
                THEN [thread_id |-> thread_id, checkpoint_ns |-> checkpoint_ns,
                      checkpoint_id |-> parentCheckpointId]
                ELSE UndefinedObject,
            pendingWrites |-> pendingWrites]

\* Array.prototype.sort with (a, b) => Number(a.idx) - Number(b.idx): a stable
\* sort; a comparison with NaN counts as equal
IdxAfter(a, b) ==
  LET na == ParseInt(a.idx)
      nb == ParseInt(b.idx)
  IN  na /= NaN /\ nb /= NaN /\ na > nb

RECURSIVE InsertByIdx(_, _)
InsertByIdx(sorted, x) ==
  IF sorted = <<>> THEN <<x>>
  ELSE IF IdxAfter(sorted[Len(sorted)], x)
    THEN Append(InsertByIdx(SubSeq(sorted, 1, Len(sorted) - 1), x), sorted[Len(sorted)])
  ELSE Append(sorted, x)

RECURSIVE SortByIdx(_)
SortByIdx(parsedKeys) ==
  IF parsedKeys = <<>> THEN <<>>
  ELSE InsertByIdx(SortByIdx(SubSeq(parsedKeys, 1, Len(parsedKeys) - 1)),
                   parsedKeys[Len(parsedKeys)])

\* `${x}` for a string or undefined
Template(x) ==
  IF x = Undefined THEN <<"u", "n", "d", "e", "f", "i", "n", "e", "d">> ELSE x

\* Object.fromEntries followed by Object.entries, for property names that
\* are no array indexes: a property keeps the place of its first entry and
\* the value of its last
RECURSIVE FromEntries(_, _)
FromEntries(entries, acc) ==
  IF entries = <<>> THEN acc
  ELSE
    LET e == Head(entries)
    IN  IF \E j \in 1..Len(acc) : acc[j][1] = e[1]
          THEN FromEntries(Tail(entries),
                 [j \in 1..Len(acc) |-> IF acc[j][1] = e[1] THEN e ELSE acc[j]])
          ELSE FromEntries(Tail(entries), Append(acc, e))

\* src/utils.ts loadWrites, over the entries of taskIdToData; a TypeError
\* when a hash has no value field
loadWrites(taskIdToData) ==
  IF \E i \in 1..Len(taskIdToData) : HashGet(taskIdToData[i][2], "value") = Undefined
    THEN TypeError
  ELSE
    LET loaded == [i \in 1..Len(taskIdToData) |->
                     loadsTyped(HashGet(taskIdToData[i][2], "type"),
                       decodeCommaSeperatedString(HashGet(taskIdToData[i][2], "value")))]
    IN  IF \E i \in 1..Len(loaded) : IsError(loaded[i])
          THEN loaded[CHOOSE i \in 1..Len(loaded) : IsError(loaded[i])]
        ELSE [items |->
               [i \in 1..Len(taskIdToData) |->
                  [task_id |-> Split(taskIdToData[i][1], ",")[1],
                   channel |-> HashGet(taskIdToData[i][2], "channel"),
                   value |-> loaded[i]]]]

\* the pattern getTuple passes to KEYS to find the write keys, once the
\* checkpoint key is resolved
WritesPattern(config, checkpointKey) ==
  LET thread_id == Configurable(config, "thread_id")
      checkpoint_ns == Nullish(Configurable(config, "checkpoint_ns"), <<>>)
      checkpoint_id == Nullish(Configurable(config, "checkpoint_id"),
                               parseRedisCheckpointKey(checkpointKey).checkpoint_id)
  IN  makeRedisCheckpointWritesKey(thread_id, checkpoint_ns, checkpoint_id,
                                   Star, NullIdx)

\* getTuple(config); all_keys and matchingKeys are what the two KEYS calls
\* return (the first is not issued when the config carries a checkpoint_id)
getTuple(d, config, all_keys, matchingKeys) ==
  IF IsUndefinedObject(config) THEN Error("ValidationError")
  ELSE
    LET thread_id == Configurable(config, "thread_id")
        checkpoint_ns == Nullish(Configurable(config, "checkpoint_ns"), <<>>)
        checkpoint_id == Configurable(config, "checkpoint_id")
    IN
    IF Falsy(thread_id) THEN Error("ValidationError")
    ELSE
      LET checkpointKey == getCheckpointKey(thread_id, checkpoint_ns,
                                            checkpoint_id, all_keys)
      IN
      IF Falsy(checkpointKey) THEN UndefinedObject
      ELSE
        LET checkpointData == HGETALL(d, checkpointKey)
            parsedKeys == SortByIdx([i \in 1..Len(matchingKeys) |->
                                       parseRedisCheckpointWritesKey(matchingKeys[i])])
            entries == [i \in 1..Len(parsedKeys) |->
                          << Template(parsedKeys[i].task_id) \o <<",">>
                               \o Template(parsedKeys[i].idx),
                             HGETALL(d, matchingKeys[i]) >>]
            pendingWrites == loadWrites(FromEntries(entries, <<>>))
        IN  IF IsError(pendingWrites) THEN pendingWrites
            ELSE parseRedisCheckpointData(checkpointKey, checkpointData,
                                          pendingWrites.items)

\* Array.prototype.sort with localeCompare on the parsed checkpoint ids: a
\* stable sort
RECURSIVE InsertByLocale(_, _)
InsertByLocale(sorted, k) ==
  IF sorted = <<>> THEN <<k>>
  ELSE IF localeCompare(parseRedisCheckpointKey(sorted[Len(sorted)]).checkpoint_id,
                        parseRedisCheckpointKey(k).checkpoint_id) > 0
    THEN Append(InsertByLocale(SubSeq(sorted, 1, Len(sorted) - 1), k),
                sorted[Len(sorted)])
  ELSE Append(sorted, k)

RECURSIVE SortByLocale(_)
SortByLocale(keys) ==
  IF keys = <<>> THEN <<>>
  ELSE InsertByLocale(SortByLocale(SubSeq(keys, 1, Len(keys) - 1)), keys[Len(keys)])

\* the filter of filterKeys with <= in place of <
RECURSIVE FilterInclusive(_, _)
FilterInclusive(keys, before) ==
  IF keys = <<>> THEN <<>>
  ELSE
    LET rest == FilterInclusive(Tail(keys), before)
        id == parseRedisCheckpointKey(Head(keys)).checkpoint_id
    IN  IF JsLess(id, Configurable(before, "checkpoint_id"))
           \/ id = Configurable(before, "checkpoint_id")
          THEN <<Head(keys)>> \o rest
          ELSE rest

\* the filter of filterKeys: the keys with an id before the cutoff
RECURSIVE Filter(_, _)
Filter(keys, before) ==
  IF keys = <<>> THEN <<>>
  ELSE
    LET rest == Filter(Tail(keys), before)
    IN  IF JsLess(parseRedisCheckpointKey(Head(keys)).checkpoint_id,
                  Configurable(before, "checkpoint_id"))
          THEN <<Head(keys)>> \o rest
          ELSE rest

\* Array.prototype.slice(0, n) for n >= 0
SliceTo(keys, n) == SubSeq(keys, 1, IF n < Len(keys) THEN n ELSE Len(keys))

\* src/utils.ts filterKeys; before is a config or undefined, limit a number
\* (not negative) or undefined
filterKeys(keys, before, limit) ==
  LET filtered == IF ~IsUndefinedObject(before) THEN Filter(keys, before) ELSE keys
      sorted == SortByLocale(filtered)
  IN  IF ~FalsyNum(limit) THEN SliceTo(sorted, limit) ELSE sorted

\* the body of the loop of list over the filtered keys: what is yielded
\* before the generator ends or throws
RECURSIVE ListYield(_, _, _)
ListYield(d, keys, yielded) ==
  IF keys = <<>> THEN [yielded |-> yielded, done |-> TRUE]
  ELSE
    LET data == HGETALL(d, Head(keys))
    IN  IF ~Falsy(HashGet(data, "checkpoint")) /\ ~Falsy(HashGet(data, "metadata"))
          THEN LET tuple == parseRedisCheckpointData(Head(keys), data, UndefinedArray)
               IN  IF IsError(tuple)
                     THEN [yielded |-> yielded, done |-> FALSE, error |-> tuple.error]
                     ELSE ListYield(d, Tail(keys), Append(yielded, tuple))
          ELSE ListYield(d, Tail(keys), yielded)

\* the pattern list passes to KEYS
ListPattern(config) ==
  makeRedisCheckpointKey(Configurable(config, "thread_id"),
                         Configurable(config, "checkpoint_ns"), Star)

\* list(config, options) run to its end; keys is what KEYS returned
list(d, config, options, keys) ==
  ListYield(d, filterKeys(keys, options.before, options.limit), <<>>)

\* deleteThread without the write keys
deleteCheckpointsOnly(d, threadId) ==
  LET checkpointPattern == makeRedisCheckpointKey(threadId, <<>>, Star)
      checkpointKeys == MatchingKeys(d, checkpointPattern)
  IN  IF Cardinality(checkpointKeys) > 0 THEN DEL(d, checkpointKeys) ELSE d

\* deleteThread(threadId): the keyspace it leaves
deleteThread(d, threadId) ==
  LET checkpointPattern == makeRedisCheckpointKey(threadId, <<>>, Star)
      checkpointKeys == MatchingKeys(d, checkpointPattern)
      writesPattern == makeRedisCheckpointWritesKey(threadId, <<>>, Star, Star, NullIdx)
      writeKeys == MatchingKeys(d, writesPattern)
      allKeys == checkpointKeys \cup writeKeys
  IN  IF Cardinality(allKeys) > 0 THEN DEL(d, allKeys) ELSE d

-----------------------------------------------------------------------------
(* The calls a client makes, one action per method of the saver *)

Put(ttl, config, checkpoint, metadata) ==
  LET out == put(db, ttl, config, checkpoint, metadata)
  IN  /\ db' = out.db
      /\ last' = [op |-> "put", ttl |-> ttl, config |-> config,
                  checkpoint |-> checkpoint, metadata |-> metadata, res |-> out.res]

PutWrites(ttl, config, writes, task_id) ==
  LET out == putWrites(db, ttl, config, writes, task_id)
  IN  /\ db' = out.db
      /\ last' = [op |-> "putWrites", ttl |-> ttl, config |-> config,
                  writes |-> writes, task_id |-> task_id, res |-> out.res]

\* the KEYS call of _getCheckpointKey is issued only for a config without
\* checkpoint_id
GetTuple(config) ==
  LET thread_id == Configurable(config, "thread_id")
      checkpoint_ns == Nullish(Configurable(config, "checkpoint_ns"), <<>>)
      checkpoint_id == Configurable(config, "checkpoint_id")
      replies == IF Falsy(checkpoint_id)
                   THEN Enumerations(MatchingKeys(db,
                          makeRedisCheckpointKey(thread_id, checkpoint_ns, Star)))
                   ELSE {<<>>}
  IN
  \E all_keys \in replies :
    LET checkpointKey == getCheckpointKey(thread_id, checkpoint_ns,
                                          checkpoint_id, all_keys)
        writeKeys == IF Falsy(thread_id) \/ Falsy(checkpointKey) THEN {}
                     ELSE MatchingKeys(db, WritesPattern(config, checkpointKey))
    IN  \E matchingKeys \in Enumerations(writeKeys) :
          /\ db' = db
          /\ last' = [op |-> "getTuple", config |-> config, keys |-> matchingKeys,
                      res |-> getTuple(db, config, all_keys, matchingKeys)]

List(config, options) ==
  \E keys \in Enumerations(MatchingKeys(db, ListPattern(config))) :
    /\ db' = db
    /\ last' = [op |-> "list", config |-> config, options |-> options,
                res |-> list(db, config, options, keys)]

DeleteThread(threadId) ==
  /\ db' = deleteThread(db, threadId)
  /\ last' = [op |-> "deleteThread", threadId |-> threadId, res |-> Void]

\* a second passes
Tick ==
  /\ \E k \in DOMAIN db : db[k].ttl /= NoExpiry
  /\ db' = Expire(db)
  /\ last' = [op |-> "tick"]

-----------------------------------------------------------------------------
(* The values the calls are made with *)

\* a saver constructed without ttl
NoTtl == NumUndefined

Thread1 == <<"1">>

EmptyNs == <<>>

OtherNs == <<"n">>

Namespaces == {EmptyNs, OtherNs}

IdA == <<"a">>

IdB == <<"B">>

IdLowerB == <<"b">>

AllIds == {IdA, IdB, IdLowerB}

\* code units order B before a; localeCompare orders a before B
CheckpointIds == {IdA, IdB}

\* the versions (payloads) of a checkpoint
Versions == {1, 2}

Checkpoints == [id : CheckpointIds, v : Versions]

\* the metadata put with a checkpoint
MetadataOf(checkpoint) == [step |-> checkpoint.v]

IsCheckpointKey(k) == Split(k, ":")[1] = CheckpointLiteral

IsWriteKey(k) == Split(k, ":")[1] = WritesLiteral

CheckpointKeys(d) == {k \in DOMAIN d : IsCheckpointKey(k)}

WriteKeys(d) == {k \in DOMAIN d : IsWriteKey(k)}

EmptyDb == [k \in {} |-> [hash |-> {}, ttl |-> NoExpiry]]

\* a new saver on an empty Redis
Init ==
  /\ db = EmptyDb
  /\ last = [op |-> "init"]

-----------------------------------------------------------------------------
(* The checkpoint store: put and getTuple of one saver without ttl, on one *)
(* thread with two namespaces                                              *)

\* the number of checkpoint keys the keyspace may hold
MaxCheckpoints == 3

\* the configs of put: checkpoint_ns given or left out, with and without the
\* id of a parent
PutConfigs ==
  [thread_id : {Thread1}, checkpoint_ns : Namespaces \cup {Undefined},
   checkpoint_id : {IdA, Undefined}]

\* the configs of getTuple
GetConfigs ==
  [thread_id : {Thread1}, checkpoint_ns : Namespaces \cup {Undefined},
   checkpoint_id : CheckpointIds \cup {Undefined}]

PutCheckpoint ==
  \E config \in PutConfigs, checkpoint \in Checkpoints :
    /\ Put(NoTtl, config, checkpoint, MetadataOf(checkpoint))
    /\ Cardinality(CheckpointKeys(db')) <= MaxCheckpoints

ReadTuple == \E config \in GetConfigs : GetTuple(config)

Next == PutCheckpoint \/ ReadTuple

Spec == Init /\ [][Next]_vars

-----------------------------------------------------------------------------
(* Properties of the checkpoint store *)

IsTuple(r) == "checkpoint" \in DOMAIN r

\* the checkpoint ids stored under exactly (thread_id, checkpoint_ns)
StoredIds(d, thread_id, checkpoint_ns) ==
  {id \in AllIds :
     Join(<<CheckpointLiteral, thread_id, checkpoint_ns, id>>, <<":">>) \in DOMAIN d}

\* the namespace a config names: the empty one when it names none
NsOf(config) ==
  IF config.checkpoint_ns = Undefined THEN EmptyNs ELSE config.checkpoint_ns

\* C1: a successful put returns {thread_id, checkpoint_ns ("" when omitted),
\* checkpoint_id = checkpoint.id}, whatever checkpoint_id the incoming config
\* carried; and a getTuple with the returned config that follows the put
\* directly returns a tuple with that config and with the checkpoint and the
\* metadata that were put.
C1_PutGetRoundTrip ==
  [][ (last.op = "put" /\ ~IsError(last.res)) =>
        /\ last.res = [thread_id |-> last.config.thread_id,
                       checkpoint_ns |-> NsOf(last.config),
                       checkpoint_id |-> last.checkpoint.id]
        /\ (last'.op = "getTuple" /\ last'.config = last.res) =>
             /\ IsTuple(last'.res)
             /\ last'.res.config = last.res
             /\ last'.res.checkpoint = last.checkpoint
             /\ last'.res.metadata = last.metadata ]_vars

\* C1 witness: a getTuple with a full config has returned the tuple of a
\* checkpoint that a put with a parent pointer and no namespace had stored
C1_Witness ==
  /\ last.op = "getTuple"
  /\ IsTuple(last.res)
  /\ last.config.checkpoint_id /= Undefined
  /\ last.res.config = last.config
  /\ last.res.checkpoint.v = 2
  /\ ~IsUndefinedObject(last.res.parentConfig)

\* C2: getTuple without checkpoint_id returns the checkpoint with the
\* greatest id (code unit order) among the checkpoint keys stored under
\* exactly (thread_id, checkpoint_ns), in whatever order they were put.
C2_LatestIsGreatestId ==
  (last.op = "getTuple" /\ last.config.checkpoint_id = Undefined) =>
    LET ids == StoredIds(db, last.config.thread_id, NsOf(last.config))
    IN  IF ids = {} THEN last.res = UndefinedObject
        ELSE /\ IsTuple(last.res)
             /\ last.res.config.thread_id = last.config.thread_id
             /\ last.res.config.checkpoint_ns = NsOf(last.config)
             /\ last.res.config.checkpoint_id \in ids
             /\ \A id \in ids \ {last.res.config.checkpoint_id} :
                  StrLess(id, last.res.config.checkpoint_id)
             /\ last.res.checkpoint.id = last.res.config.checkpoint_id

\* C2 witness: the latest of two checkpoints of one namespace was returned
\* while the other namespace was empty
C2_Witness ==
  /\ last.op = "getTuple"
  /\ last.config.checkpoint_id = Undefined
  /\ Cardinality(StoredIds(db, last.config.thread_id, NsOf(last.config))) >= 2
  /\ IsTuple(last.res)

\* C6: when no checkpoint key exists for the thread and namespace of the
\* config, getTuple returns undefined, with or without a checkpoint_id in the
\* config, and raises no error.
C6_MissingIsUndefined ==
  (/\ last.op = "getTuple"
   /\ StoredIds(db, last.config.thread_id, NsOf(last.config)) = {})
    => last.res = UndefinedObject

-----------------------------------------------------------------------------
(* Listing: put and list of one saver, three checkpoint ids in the empty   *)
(* namespace and one in another namespace                                  *)

\* the highest limit passed to list
MaxLimit == 2

\* where the checkpoints to list are put: <<checkpoint_ns, id>>
ListTargets == ({EmptyNs} \X AllIds) \cup {<<OtherNs, IdA>>}

ListConfigs == [thread_id : {Thread1}, checkpoint_ns : {Undefined, OtherNs}]

\* options.before is a config with a checkpoint_id, or undefined
ListOptions ==
  [before : {UndefinedObject} \cup [checkpoint_id : AllIds],
   limit : {NumUndefined} \cup 0..MaxLimit]

ListPut ==
  \E target \in ListTargets :
    Put(NoTtl, [thread_id |-> Thread1, checkpoint_ns |-> target[1]],
        [id |-> target[2], v |-> 1], [step |-> 1])

ListCall == \E config \in ListConfigs, options \in ListOptions : List(config, options)

NextList == ListPut \/ ListCall

SpecList == Init /\ [][NextList]_vars

\* the ids of the tuples a list call yielded, in the order of the yields
YieldedIds(res) ==
  [i \in 1..Len(res.yielded) |-> res.yielded[i].config.checkpoint_id]

Range(seq) == {seq[i] : i \in 1..Len(seq)}

\* ascending in the order of the ids (code units), so without repetition
Ascending(ids) == \A i, j \in 1..Len(ids) : i < j => StrLess(ids[i], ids[j])

\* every tuple yielded is the record stored for its id under the listed
\* thread and namespace
YieldsStoredTuples ==
  \A i \in 1..Len(last.res.yielded) :
    LET tuple == last.res.yielded[i]
    IN  /\ tuple.config.thread_id = last.config.thread_id
        /\ tuple.config.checkpoint_ns = NsOf(last.config)
        /\ tuple.checkpoint.id = tuple.config.checkpoint_id

\* the ids list has to choose from: the stored ones, before the cutoff if any
Qualifying ==
  LET stored == StoredIds(db, last.config.thread_id, NsOf(last.config))
  IN  IF IsUndefinedObject(last.options.before) THEN stored
      ELSE {id \in stored : StrLess(id, last.options.before.checkpoint_id)}

\* C7: list without before and limit yields every checkpoint stored under
\* (thread_id, checkpoint_ns) exactly once, in ascending order of the ids; a
\* config without checkpoint_ns lists the empty namespace.
C7_ListAllAscending ==
  (/\ last.op = "list"
   /\ IsUndefinedObject(last.options.before)
   /\ last.options.limit = NumUndefined)
    => /\ last.res.done
       /\ YieldsStoredTuples
       /\ Len(last.res.yielded) = Cardinality(Qualifying)
       /\ Range(YieldedIds(last.res)) = Qualifying
       /\ Ascending(YieldedIds(last.res))

\* C8: list with a limit L >= 0 yields at most L tuples, the L checkpoints of
\* the (before-filtered) set with the smallest ids, in ascending order.
C8_LimitOldest ==
  (last.op = "list" /\ last.options.limit /= NumUndefined)
    => LET ids == YieldedIds(last.res)
           expected == IF last.options.limit < Cardinality(Qualifying)
                         THEN last.options.limit ELSE Cardinality(Qualifying)
       IN  /\ Len(ids) <= last.options.limit
           /\ Len(ids) = expected
           /\ Range(ids) \subseteq Qualifying
           /\ \A id \in Qualifying \ Range(ids) :
                \A y \in Range(ids) : StrLess(y, id)
           /\ Ascending(ids)

\* C9: list with before yields only ids strictly before the cutoff, never the
\* cutoff, and without a limit every stored checkpoint of the thread and
\* namespace with an id strictly before the cutoff.
C9_BeforeIsStrict ==
  (last.op = "list" /\ ~IsUndefinedObject(last.options.before))
    => LET ids == YieldedIds(last.res)
           cutoff == last.options.before.checkpoint_id
       IN  /\ \A i \in 1..Len(ids) : StrLess(ids[i], cutoff)
           /\ cutoff \notin Range(ids)
           /\ YieldsStoredTuples
           /\ last.options.limit = NumUndefined =>
                /\ Range(ids) = Qualifying
                /\ Len(ids) = Cardinality(Qualifying)

\* C9 witness: a list with a stored cutoff and no limit has yielded the two
\* checkpoints before it and left out the cutoff
C9_Witness ==
  /\ last.op = "list"
  /\ ~IsUndefinedObject(last.options.before)
  /\ last.options.limit = NumUndefined
  /\ last.options.before.checkpoint_id
       \in StoredIds(db, last.config.thread_id, NsOf(last.config))
  /\ Len(last.res.yielded) = 2

-----------------------------------------------------------------------------
(* Pending writes: one checkpoint, two tasks storing writes on it *)

\* the highest number of write keys in the store
MaxWriteKeys == 3

TaskX == <<"x">>

TaskY == <<"y">>

Tasks == {TaskX, TaskY}

\* the [channel, value] pairs the tasks write
Items ==
  { [channel |-> <<"c">>, value |-> [str |-> <<"m">>]],
    [channel |-> <<"d">>, value |-> [str |-> <<"n">>]] }

\* the arrays passed to putWrites: one or two pairs
WriteArrays ==
  {<<item>> : item \in Items} \cup {<<i1, i2>> : i1 \in Items, i2 \in Items}

\* the config put returns for the checkpoint
PinnedConfig ==
  [thread_id |-> Thread1, checkpoint_ns |-> EmptyNs, checkpoint_id |-> IdA]

WritesPut ==
  Put(NoTtl, [thread_id |-> Thread1, checkpoint_ns |-> EmptyNs],
      [id |-> IdA, v |-> 1], [step |-> 1])

WritesPutWrites ==
  \E items \in WriteArrays, task_id \in Tasks :
    /\ PutWrites(NoTtl, PinnedConfig, [isArray |-> TRUE, items |-> items], task_id)
    /\ Cardinality(WriteKeys(db')) <= MaxWriteKeys

WritesGet ==
  \E checkpoint_id \in {IdA, Undefined} :
    GetTuple([thread_id |-> Thread1, checkpoint_ns |-> EmptyNs,
              checkpoint_id |-> checkpoint_id])

NextWrites == WritesPut \/ WritesPutWrites \/ WritesGet

SpecWrites == Init /\ [][NextWrites]_vars

\* the write keys stored for one checkpoint
WriteKeysOf(d, config) ==
  {k \in WriteKeys(d) :
     LET parsed == parseRedisCheckpointWritesKey(k)
     IN  /\ parsed.thread_id = config.thread_id
         /\ parsed.checkpoint_ns = config.checkpoint_ns
         /\ parsed.checkpoint_id = config.checkpoint_id}

\* the [channel, value] pairs of the triples of one task, in the order of
\* pendingWrites
RECURSIVE WritesOfTask(_, _)
WritesOfTask(pendingWrites, task_id) ==
  IF pendingWrites = <<>> THEN <<>>
  ELSE
    LET write == Head(pendingWrites)
        rest == WritesOfTask(Tail(pendingWrites), task_id)
    IN  IF write.task_id = task_id
          THEN <<[channel |-> write.channel, value |-> write.value]>> \o rest
          ELSE rest

\* C3: a getTuple for the checkpoint that follows a successful
\* putWrites(config, W, task) on a stored checkpoint, the task holding no
\* other write keys, returns the writes of the task in idx order
\* (pendingWrites[i] = (task, W[i].channel, W[i].value)), whatever order KEYS
\* returns the write keys in.
C3_PendingWriteOrder ==
  [][(/\ last.op = "putWrites"
      /\ ~IsError(last.res)
      /\ makeRedisCheckpointKey(last.config.thread_id, last.config.checkpoint_ns,
                                last.config.checkpoint_id) \in DOMAIN db
      /\ Cardinality({k \in WriteKeysOf(db, last.config) :
                        parseRedisCheckpointWritesKey(k).task_id = last.task_id})
           = Len(last.writes.items)
      /\ last'.op = "getTuple"
      /\ last'.config.checkpoint_id \in {last.config.checkpoint_id, Undefined})
       => /\ IsTuple(last'.res)
          /\ last'.res.config = last.config
          /\ WritesOfTask(last'.res.pendingWrites, last.task_id) = last.writes.items]_vars

\* the triple is what the hash of the key holds, under the task of the key
TripleOfKey(d, k, write) ==
  /\ write.task_id = parseRedisCheckpointWritesKey(k).task_id
  /\ write.channel = HashGet(d[k].hash, "channel")
  /\ write.value = loadsTyped(HashGet(d[k].hash, "type"),
                     decodeCommaSeperatedString(HashGet(d[k].hash, "value")))

\* C4: getTuple returns one triple per write key stored for the checkpoint,
\* and every triple carries the task id of a key together with the channel
\* and the value stored under a key of this same task.
C4_PendingWriteAttribution ==
  (last.op = "getTuple" /\ IsTuple(last.res))
    => LET pendingWrites == last.res.pendingWrites
           keys == WriteKeysOf(db, last.res.config)
       IN  /\ Len(pendingWrites) = Cardinality(keys)
           /\ \A i \in 1..Len(pendingWrites) :
                \E k \in keys : TripleOfKey(db, k, pendingWrites[i])
           /\ \A k \in keys :
                \E i \in 1..Len(pendingWrites) : TripleOfKey(db, k, pendingWrites[i])

-----------------------------------------------------------------------------
(* Deleting: two threads, one a prefix of the other, each with a           *)
(* checkpoint and a write in two namespaces                                *)

Thread12 == <<"1", "2">>

Threads == {Thread1, Thread12}

DeletePut ==
  \E thread_id \in Threads, checkpoint_ns \in Namespaces :
    Put(NoTtl, [thread_id |-> thread_id, checkpoint_ns |-> checkpoint_ns],
        [id |-> IdA, v |-> 1], [step |-> 1])

DeletePutWrites ==
  \E thread_id \in Threads, checkpoint_ns \in Namespaces :
    PutWrites(NoTtl,
              [thread_id |-> thread_id, checkpoint_ns |-> checkpoint_ns,
               checkpoint_id |-> IdA],
              [isArray |-> TRUE,
               items |-> <<[channel |-> <<"c">>, value |-> [str |-> <<"m">>]]>>],
              TaskX)

DeleteCall == \E threadId \in Threads : DeleteThread(threadId)

NextDelete == DeletePut \/ DeletePutWrites \/ DeleteCall

SpecDelete == Init /\ [][NextDelete]_vars

\* the thread a stored key belongs to
ThreadOfKey(k) ==
  IF IsCheckpointKey(k) THEN parseRedisCheckpointKey(k).thread_id
  ELSE parseRedisCheckpointWritesKey(k).thread_id

\* C5: after deleteThread(T) the store holds no checkpoint key and no write
\* key of thread T, in whatever namespace.
C5_DeleteThreadAllNamespaces ==
  last.op = "deleteThread"
    => \A k \in DOMAIN db : ThreadOfKey(k) /= last.threadId

-----------------------------------------------------------------------------
(* Expiry: savers with and without ttl sharing the store, one checkpoint,  *)
(* the writes of one task, and time passing                                *)

\* the highest ttl a saver is constructed with, in seconds
MaxTtl == 2

\* the ttl of a saver: undefined or a positive integer
Ttls == {NoTtl} \cup 1..MaxTtl

TtlPut ==
  \E ttl \in Ttls :
    Put(ttl, [thread_id |-> Thread1, checkpoint_ns |-> EmptyNs],
        [id |-> IdA, v |-> 1], [step |-> 1])

TtlPutWrites ==
  \E ttl \in Ttls, n \in 1..2 :
    PutWrites(ttl, PinnedConfig,
              [isArray |-> TRUE,
               items |-> [i \in 1..n |->
                            [channel |-> <<"c">>, value |-> [str |-> <<"m">>]]]],
              TaskX)

NextTtl == TtlPut \/ TtlPutWrites \/ Tick

SpecTtl == Init /\ [][NextTtl]_vars

\* the keys the last call wrote
KeysWritten ==
  IF last.op = "put"
    THEN {makeRedisCheckpointKey(last.res.thread_id, last.res.checkpoint_ns,
                                 last.res.checkpoint_id)}
    ELSE {makeRedisCheckpointWritesKey(last.config.thread_id,
                                       last.config.checkpoint_ns,
                                       last.config.checkpoint_id, last.task_id, i - 1) :
            i \in 1..Len(last.writes.items)}

C11_NoTtlIsPersistent ==
  (last.op = "put" /\ ~IsError(last.res) /\ last.ttl = NoTtl)
    => \A k \in KeysWritten : k \in DOMAIN db /\ db[k].ttl = NoExpiry

-----------------------------------------------------------------------------
(* History: first and later puts of two checkpoints of one thread and      *)
(* namespace, with every kind of incoming checkpoint_id                    *)

\* the checkpoint_id of the config passed to put: none, empty, or an id
ParentIds == {Undefined, <<>>, IdA, IdB}

HistoryConfigs ==
  [thread_id : {Thread1}, checkpoint_ns : {EmptyNs}, checkpoint_id : ParentIds]

\* the first put of a triple: version 1
FirstPut ==
  \E config \in HistoryConfigs, id \in CheckpointIds :
    /\ makeRedisCheckpointKey(config.thread_id, config.checkpoint_ns, id) \notin DOMAIN db
    /\ Put(NoTtl, config, [id |-> id, v |-> 1], [step |-> 1])

\* a put of a triple that is stored already: version 2
SecondPut ==
  \E config \in HistoryConfigs, id \in CheckpointIds :
    /\ makeRedisCheckpointKey(config.thread_id, config.checkpoint_ns, id) \in DOMAIN db
    /\ Put(NoTtl, config, [id |-> id, v |-> 2], [step |-> 2])

HistoryGet ==
  \E id \in CheckpointIds :
    GetTuple([thread_id |-> Thread1, checkpoint_ns |-> EmptyNs, checkpoint_id |-> id])

HistoryList ==
  List([thread_id |-> Thread1, checkpoint_ns |-> EmptyNs],
       [before |-> UndefinedObject, limit |-> NumUndefined])

NextHistory == FirstPut \/ SecondPut \/ HistoryGet \/ HistoryList

SpecHistory == Init /\ [][NextHistory]_vars

\* the parentConfig a tuple has to carry when its checkpoint was put with
\* config and put returned res
ExpectedParent(config, res) ==
  IF config.checkpoint_id = Undefined \/ config.checkpoint_id = <<>>
    THEN UndefinedObject
    ELSE [thread_id |-> res.thread_id, checkpoint_ns |-> res.checkpoint_ns,
          checkpoint_id |-> config.checkpoint_id]

\* the keys of the store that name the triple
KeysOfTriple(d, triple) ==
  {k \in CheckpointKeys(d) : parseRedisCheckpointKey(k) = triple}

\* how often a list result holds the id
TimesYielded(res, id) ==
  Cardinality({i \in 1..Len(res.yielded) : res.yielded[i].config.checkpoint_id = id})

\* C12: a put of a triple that is stored already adds no key and leaves one
\* record for the triple; a getTuple for the id that follows it returns the
\* checkpoint, the metadata and the parent pointer of this put only, and a
\* list that follows it yields the id exactly once. (In SpecHistory the puts
\* of version 2 are the puts of a stored triple.)
C12_OverwriteKeepsOneRecord ==
  [][/\ (/\ last'.op = "put"
         /\ ~IsError(last'.res)
         /\ KeysOfTriple(db, last'.res) /= {})
          => /\ DOMAIN db' = DOMAIN db
             /\ Cardinality(KeysOfTriple(db', last'.res)) = 1
     /\ (/\ last.op = "put"
         /\ ~IsError(last.res)
         /\ last.checkpoint.v = 2
         /\ last'.op = "getTuple"
         /\ last'.config = last.res)
          => /\ IsTuple(last'.res)
             /\ last'.res.config = last.res
             /\ last'.res.checkpoint = last.checkpoint
             /\ last'.res.metadata = last.metadata
             /\ last'.res.parentConfig = ExpectedParent(last.config, last.res)
     /\ (/\ last.op = "put"
         /\ ~IsError(last.res)
         /\ last.checkpoint.v = 2
         /\ last'.op = "list")
          => /\ last'.res.done
             /\ TimesYielded(last'.res, last.res.checkpoint_id) = 1]_vars

\* C12 witness: getTuple has returned the version and the metadata of a put
\* over a stored triple, with both checkpoints in the store
C12_Witness ==
  /\ last.op = "getTuple"
  /\ IsTuple(last.res)
  /\ last.res.checkpoint.v = 2
  /\ last.res.metadata.step = 2
  /\ Cardinality(CheckpointKeys(db)) = 2

\* C13: the tuple read right after a put of its checkpoint has parentConfig =
\* {thread_id, checkpoint_ns, checkpoint_id = P} when the config of the put
\* carried a non-empty checkpoint_id P and parentConfig = undefined when it
\* carried none or an empty one; and when the config a put returned is passed
\* to the next put, the tuple of that next checkpoint has the first
\* checkpoint as its parent, in the same thread and namespace.
C13_ParentPointer ==
  [][/\ (/\ last.op = "put"
         /\ ~IsError(last.res)
         /\ last'.op = "getTuple"
         /\ last'.config = last.res)
          => /\ IsTuple(last'.res)
             /\ last'.res.parentConfig = ExpectedParent(last.config, last.res)
     /\ (/\ last.op = "put"
         /\ ~IsError(last.res)
         /\ last'.op = "put"
         /\ ~IsError(last'.res)
         /\ last'.config = last.res)
          => LET tuple == getTuple(db', last'.res, <<>>, <<>>)
             IN  /\ IsTuple(tuple)
                 /\ tuple.parentConfig =
                      [thread_id |-> last.res.thread_id,
                       checkpoint_ns |-> last.res.checkpoint_ns,
                       checkpoint_id |-> last.checkpoint.id]]_vars

\* C13 witness: the tuple of B names the stored checkpoint a as its parent
C13_Witness ==
  /\ last.op = "getTuple"
  /\ IsTuple(last.res)
  /\ last.res.checkpoint.id = IdB
  /\ ~IsUndefinedObject(last.res.parentConfig)
  /\ last.res.parentConfig.checkpoint_id = IdA
  /\ IdA \in StoredIds(db, Thread1, EmptyNs)

-----------------------------------------------------------------------------
(* Purging: deleteThread of a thread that holds a checkpoint and a write   *)
(* in the empty namespace, and the getTuple that follows                   *)

\* the namespace a stored key belongs to
NsOfKey(k) ==
  IF IsCheckpointKey(k) THEN parseRedisCheckpointKey(k).checkpoint_ns
  ELSE parseRedisCheckpointWritesKey(k).checkpoint_ns

\* the keys of a thread in a namespace
KeysOfThread(d, threadId, checkpoint_ns) ==
  {k \in DOMAIN d : ThreadOfKey(k) = threadId /\ NsOfKey(k) = checkpoint_ns}

\* deleteThread of a thread with a checkpoint and a write in the empty
\* namespace
DeleteStored ==
  \E threadId \in Threads :
    /\ KeysOfThread(db, threadId, EmptyNs) \cap CheckpointKeys(db) /= {}
    /\ KeysOfThread(db, threadId, EmptyNs) \cap WriteKeys(db) /= {}
    /\ DeleteThread(threadId)

PurgeGet ==
  \E thread_id \in Threads, checkpoint_ns \in {Undefined, EmptyNs} :
    GetTuple([thread_id |-> thread_id, checkpoint_ns |-> checkpoint_ns,
              checkpoint_id |-> Undefined])

NextPurge == DeletePut \/ DeletePutWrites \/ DeleteStored \/ PurgeGet

SpecPurge == Init /\ [][NextPurge]_vars

\* C14: when deleteThread(T) has run on a thread with checkpoints and writes
\* in the empty namespace, no checkpoint key and no write key of T in the
\* empty namespace is left, and the getTuple({thread_id: T}) without
\* checkpoint_id that follows returns undefined.
C14_DeletedThreadReadsUndefined ==
  [][/\ last'.op = "deleteThread"
          => /\ last'.res = Void
             /\ KeysOfThread(db', last'.threadId, EmptyNs) = {}
     /\ (/\ last.op = "deleteThread"
         /\ last'.op = "getTuple"
         /\ last'.config.thread_id = last.threadId)
          => last'.res = UndefinedObject]_vars

\* C14 witness: deleteThread("1") has emptied the empty namespace of the
\* thread and left the keys of thread "12"
C14_Witness ==
  /\ last.op = "deleteThread"
  /\ last.threadId = Thread1
  /\ KeysOfThread(db, Thread1, EmptyNs) = {}
  /\ Cardinality(KeysOfThread(db, Thread12, EmptyNs)) = 2

-----------------------------------------------------------------------------
(* The store calls of deleteThread *)

\* deleteThread issuing DEL whatever the two KEYS calls returned
deleteThreadCallsAlways(d, threadId) ==
  LET checkpointPattern == makeRedisCheckpointKey(threadId, <<>>, Star)
      writesPattern == makeRedisCheckpointWritesKey(threadId, <<>>, Star, Star, NullIdx)
      allKeys == MatchingKeys(d, checkpointPattern) \cup MatchingKeys(d, writesPattern)
  IN  << [cmd |-> "keys", arg |-> {checkpointPattern}],
         [cmd |-> "keys", arg |-> {writesPattern}],
         [cmd |-> "del", arg |-> allKeys] >>

\* the calls deleteThread(threadId) issues to the store, in order: two KEYS
\* and, when they returned a key, one DEL of all the keys returned
deleteThreadCalls(d, threadId) ==
  LET checkpointPattern == makeRedisCheckpointKey(threadId, <<>>, Star)
      writesPattern == makeRedisCheckpointWritesKey(threadId, <<>>, Star, Star, NullIdx)
      allKeys == MatchingKeys(d, checkpointPattern) \cup MatchingKeys(d, writesPattern)
  IN  << [cmd |-> "keys", arg |-> {checkpointPattern}],
         [cmd |-> "keys", arg |-> {writesPattern}] >>
      \o (IF Cardinality(allKeys) > 0
            THEN << [cmd |-> "del", arg |-> allKeys] >> ELSE << >>)

\* deleteThread(threadId) with the calls it issued and the store it was
\* called on kept for the properties
TraceDelete(threadId) ==
  /\ db' = deleteThread(db, threadId)
  /\ last' = [op |-> "deleteThread", threadId |-> threadId, res |-> Void,
              calls |-> deleteThreadCalls(db, threadId), before |-> db]

TracedDelete == \E threadId \in Threads : TraceDelete(threadId)

NextTraced == DeletePut \/ DeletePutWrites \/ TracedDelete

SpecTraced == Init /\ [][NextTraced]_vars

\* the commands of a sequence of store calls
Commands(calls) == {calls[i].cmd : i \in 1..Len(calls)}

\* C15: a deleteThread(T) on a store without a key of T returns without
\* error, issues no DEL and leaves the store as it was; and so does a second
\* deleteThread(T) right after a first one.
C15_DeleteThreadIdempotent ==
  [][/\ (/\ last'.op = "deleteThread"
         /\ \A k \in DOMAIN db : ThreadOfKey(k) /= last'.threadId)
          => /\ last'.res = Void
             /\ "del" \notin Commands(last'.calls)
             /\ db' = db
     /\ (/\ last.op = "deleteThread"
         /\ last'.op = "deleteThread"
         /\ last'.threadId = last.threadId)
          => /\ last'.res = Void
             /\ "del" \notin Commands(last'.calls)
             /\ db' = db]_vars

\* C15 witness: a deleteThread has found nothing to delete, issued its two
\* KEYS calls only and left the keys of the other thread where they were
C15_Witness ==
  /\ last.op = "deleteThread"
  /\ Commands(last.calls) = {"keys"}
  /\ last.before = db
  /\ DOMAIN db /= {}
  /\ \A k \in DOMAIN db : ThreadOfKey(k) /= last.threadId

-----------------------------------------------------------------------------
(* put and putWrites call by call: the validation and the serialization    *)
(* that come before the first store call, then one step for each HSET and  *)
(* each EXPIRE, which the store may fail, and the crash of the process     *)

\* the serializers a saver is constructed with: the default one, and one
\* that tags a value by its kind
DefaultSerde == "default"

KindSerde == "kind"

Serdes == {DefaultSerde, KindSerde}

KindTag(value) ==
  IF "id" \in DOMAIN value THEN <<"c">>
  ELSE IF "step" \in DOMAIN value THEN <<"m">>
  ELSE <<"s">>

\* this.serde.dumpsTyped
serdeDumpsTyped(serde, value) ==
  IF serde = DefaultSerde THEN dumpsTyped(value)
  ELSE <<KindTag(value), TextEncode(Stringify(value))>>

\* a task_id that is a number
TaskNumber == <<"number">>

\* typeof x === 'string', for a task_id of the model
IsString(x) == x /= Undefined /\ x /= TaskNumber

\* the error put and putWrites throw when a store call fails
RedisError == Error("RedisError")

\* put without the check of thread_id
putPrepareAnyThread(serde, config, checkpoint, metadata) ==
  IF IsUndefinedObject(config) THEN Error("ValidationError")
  ELSE IF IsUndefinedObject(checkpoint) THEN Error("ValidationError")
  ELSE IF IsUndefinedObject(metadata) THEN Error("ValidationError")
  ELSE IF Falsy(checkpoint.id) THEN Error("ValidationError")
  ELSE
    LET checkpoint_id == checkpoint.id
        thread_id == Configurable(config, "thread_id")
        checkpoint_ns == Nullish(Configurable(config, "checkpoint_ns"), <<>>)
        parent_checkpoint_id == Configurable(config, "checkpoint_id")
        key == makeRedisCheckpointKey(thread_id, checkpoint_ns, checkpoint_id)
        dumpedCheckpoint == serdeDumpsTyped(serde, checkpoint)
        dumpedMetadata == serdeDumpsTyped(serde, metadata)
    IN
    IF dumpedCheckpoint[1] /= dumpedMetadata[1]
      THEN Error("SerializationMismatchError")
    ELSE
      [writes |->
         << [key |-> key,
             fields |->
               { <<"checkpoint", BytesToRedisString(dumpedCheckpoint[2])>>,
                 <<"type", dumpedCheckpoint[1]>>,
                 <<"metadata_type", dumpedMetadata[1]>>,
                 <<"metadata", BytesToRedisString(dumpedMetadata[2])>>,
                 <<"parent_checkpoint_id", Nullish(parent_checkpoint_id, <<>>)>> }] >>,
       res |-> [thread_id |-> thread_id, checkpoint_ns |-> checkpoint_ns,
                checkpoint_id |-> checkpoint_id]]

\* put without the comparison of the two type tags
putPrepareAnyTags(serde, config, checkpoint, metadata) ==
  IF IsUndefinedObject(config) THEN Error("ValidationError")
  ELSE IF IsUndefinedObject(checkpoint) THEN Error("ValidationError")
  ELSE IF IsUndefinedObject(metadata) THEN Error("ValidationError")
  ELSE IF Falsy(checkpoint.id) THEN Error("ValidationError")
  ELSE
    LET checkpoint_id == checkpoint.id
        thread_id == Configurable(config, "thread_id")
        checkpoint_ns == Nullish(Configurable(config, "checkpoint_ns"), <<>>)
        parent_checkpoint_id == Configurable(config, "checkpoint_id")
    IN
    IF Falsy(thread_id) THEN Error("ValidationError")
    ELSE
      LET key == makeRedisCheckpointKey(thread_id, checkpoint_ns, checkpoint_id)
          dumpedCheckpoint == serdeDumpsTyped(serde, checkpoint)
          dumpedMetadata == serdeDumpsTyped(serde, metadata)
      IN
      [writes |->
         << [key |-> key,
             fields |->
               { <<"checkpoint", BytesToRedisString(dumpedCheckpoint[2])>>,
                 <<"type", dumpedCheckpoint[1]>>,
                 <<"metadata_type", dumpedMetadata[1]>>,
                 <<"metadata", BytesToRedisString(dumpedMetadata[2])>>,
                 <<"parent_checkpoint_id", Nullish(parent_checkpoint_id, <<>>)>> }] >>,
       res |-> [thread_id |-> thread_id, checkpoint_ns |-> checkpoint_ns,
                checkpoint_id |-> checkpoint_id]]

\* put up to its first store call: the error it throws, or the key and the
\* hash it is going to write and the config it is going to return
putPrepare(serde, config, checkpoint, metadata) ==
  IF IsUndefinedObject(config) THEN Error("ValidationError")
  ELSE IF IsUndefinedObject(checkpoint) THEN Error("ValidationError")
  ELSE IF IsUndefinedObject(metadata) THEN Error("ValidationError")
  ELSE IF Falsy(checkpoint.id) THEN Error("ValidationError")
  ELSE
    LET checkpoint_id == checkpoint.id
        thread_id == Configurable(config, "thread_id")
        checkpoint_ns == Nullish(Configurable(config, "checkpoint_ns"), <<>>)
        parent_checkpoint_id == Configurable(config, "checkpoint_id")
    IN
    IF Falsy(thread_id) THEN Error("ValidationError")
    ELSE
      LET key == makeRedisCheckpointKey(thread_id, checkpoint_ns, checkpoint_id)
          dumpedCheckpoint == serdeDumpsTyped(serde, checkpoint)
          dumpedMetadata == serdeDumpsTyped(serde, metadata)
      IN
      IF dumpedCheckpoint[1] /= dumpedMetadata[1]
        THEN Error("SerializationMismatchError")
      ELSE
        [writes |->
           << [key |-> key,
               fields |->
                 { <<"checkpoint", BytesToRedisString(dumpedCheckpoint[2])>>,
                   <<"type", dumpedCheckpoint[1]>>,
                   <<"metadata_type", dumpedMetadata[1]>>,
                   <<"metadata", BytesToRedisString(dumpedMetadata[2])>>,
                   <<"parent_checkpoint_id", Nullish(parent_checkpoint_id, <<>>)>> }] >>,
         res |-> [thread_id |-> thread_id, checkpoint_ns |-> checkpoint_ns,
                  checkpoint_id |-> checkpoint_id]]

\* a call that has not returned yet, and a call cut off by a crash
Running == [running |-> TRUE]

Crashed == [crashed |-> TRUE]

\* no call is under way
Idle == IF "pc" \in DOMAIN last THEN last.pc = "done" ELSE TRUE

\* the record of a call that begins on the store d: it ends at once when it
\* throws before its first store call or has nothing to write, and is at its
\* first HSET otherwise; before is the store the call was issued on
Begin(op, ttl, serde, args, prepared, d) ==
  [op |-> op, ttl |-> ttl, serde |-> serde, args |-> args,
   before |-> d, calls |-> << >>,
   writes |-> IF IsError(prepared) THEN << >> ELSE prepared.writes,
   idx |-> 0,
   pc |-> IF IsError(prepared) THEN "done"
          ELSE IF prepared.writes = << >> THEN "done" ELSE "hset",
   res |-> IF IsError(prepared) THEN prepared
           ELSE IF prepared.writes = << >> THEN prepared.res
           ELSE Running,
   returns |-> IF IsError(prepared) THEN prepared ELSE prepared.res]

StartPut(ttl, serde, config, checkpoint, metadata) ==
  /\ Idle
  /\ db' = db
  /\ last' = Begin("put", ttl, serde,
                   [config |-> config, checkpoint |-> checkpoint,
                    metadata |-> metadata],
                   putPrepare(serde, config, checkpoint, metadata), db)

\* the call goes on after the store call of its position succeeded: to the
\* EXPIRE of the key, to the HSET of the next key, or to its return
Proceed(call, toExpire) ==
  IF toExpire THEN [call EXCEPT !.pc = "expire"]
  ELSE IF call.idx + 1 < Len(call.writes)
    THEN [call EXCEPT !.pc = "hset", !.idx = @ + 1]
  ELSE [call EXCEPT !.pc = "done", !.res = call.returns]

\* a store call is issued on the key of the position
Issued(call, cmd, ok) ==
  [call EXCEPT !.calls = Append(@, [cmd |-> cmd, idx |-> call.idx,
                                    key |-> call.writes[call.idx + 1].key,
                                    ok |-> ok])]

\* connection.hset(key, data) succeeds
HsetOk ==
  /\ ~Idle
  /\ last.pc = "hset"
  /\ db' = HSET(db, last.writes[last.idx + 1].key, last.writes[last.idx + 1].fields)
  /\ last' = Proceed(Issued(last, "hset", TRUE), ~FalsyNum(last.ttl))

\* a failed HSET the call passes over
HsetFailsGoesOn ==
  /\ ~Idle
  /\ last.pc = "hset"
  /\ db' = db
  /\ last' = Proceed(Issued(last, "hset", FALSE), FALSE)

\* connection.hset(key, data) fails: the call throws
HsetFails ==
  /\ ~Idle
  /\ last.pc = "hset"
  /\ db' = db
  /\ last' = [Issued(last, "hset", FALSE) EXCEPT !.pc = "done", !.res = RedisError]

\* connection.expire(key, this.ttl) succeeds
ExpireOk ==
  /\ ~Idle
  /\ last.pc = "expire"
  /\ db' = EXPIRE(db, last.writes[last.idx + 1].key, last.ttl)
  /\ last' = Proceed(Issued(last, "expire", TRUE), FALSE)

\* a failed EXPIRE that takes the hash back out of the store
ExpireFailsRollback ==
  /\ ~Idle
  /\ last.pc = "expire"
  /\ db' = DEL(db, {last.writes[last.idx + 1].key})
  /\ last' = [Issued(last, "expire", FALSE) EXCEPT !.pc = "done", !.res = RedisError]

\* connection.expire(key, this.ttl) fails: the call throws
ExpireFails ==
  /\ ~Idle
  /\ last.pc = "expire"
  /\ db' = db
  /\ last' = [Issued(last, "expire", FALSE) EXCEPT !.pc = "done", !.res = RedisError]

\* the process dies between two store calls of a call
Crash ==
  /\ ~Idle
  /\ db' = db
  /\ last' = [last EXCEPT !.pc = "done", !.res = Crashed]

-----------------------------------------------------------------------------
(* put call by call: valid and invalid arguments, both serializers, savers *)
(* with and without ttl                                                    *)

\* the configs passed to put: none, one without thread_id, one with an
\* empty thread_id, and a valid one
StepPutConfigs ==
  { UndefinedObject,
    [checkpoint_ns |-> EmptyNs],
    [thread_id |-> <<>>, checkpoint_ns |-> EmptyNs],
    [thread_id |-> Thread1, checkpoint_ns |-> EmptyNs] }

\* the checkpoints passed to put: none, one without id, and two versions
StepCheckpoints ==
  { UndefinedObject, [id |-> Undefined, v |-> 1] } \cup [id : {IdA}, v : Versions]

StepMetadata == { UndefinedObject, [step |-> 1] }

PutCall ==
  \E ttl \in {NoTtl, MaxTtl}, serde \in Serdes, config \in StepPutConfigs,
     checkpoint \in StepCheckpoints, metadata \in StepMetadata :
    StartPut(ttl, serde, config, checkpoint, metadata)

NextPutSteps == PutCall \/ HsetOk \/ HsetFails \/ ExpireOk \/ ExpireFails \/ Crash

SpecPutSteps == Init /\ [][NextPutSteps]_vars

\* one of config, checkpoint, metadata, checkpoint.id, config.thread_id is
\* missing
MissingPutArgument(args) ==
  \/ IsUndefinedObject(args.config)
  \/ IsUndefinedObject(args.checkpoint)
  \/ IsUndefinedObject(args.metadata)
  \/ args.checkpoint.id = Undefined
  \/ Configurable(args.config, "thread_id") = Undefined

\* C16: a put with config, checkpoint, metadata, checkpoint.id or
\* config.thread_id missing ends with an error, has issued no store call, and
\* the store (keys, records, expiries) is the store it was called on.
C16_PutValidationNoEffect ==
  (last.op = "put" /\ MissingPutArgument(last.args))
    => /\ last.pc = "done"
       /\ IsError(last.res)
       /\ last.calls = << >>
       /\ db = last.before

\* C16 witness: a put without thread_id has failed on a store that holds a
\* checkpoint
C16_Witness ==
  /\ last.op = "put"
  /\ ~IsUndefinedObject(last.args.config)
  /\ ~IsUndefinedObject(last.args.checkpoint)
  /\ ~IsUndefinedObject(last.args.metadata)
  /\ last.args.checkpoint.id = IdA
  /\ Configurable(last.args.config, "thread_id") = Undefined
  /\ IsError(last.res)
  /\ DOMAIN db /= {}

\* the arguments are all there and the serializer gives the checkpoint and
\* the metadata different type tags
TagsDiffer(call) ==
  /\ ~MissingPutArgument(call.args)
  /\ Configurable(call.args.config, "thread_id") /= <<>>
  /\ serdeDumpsTyped(call.serde, call.args.checkpoint)[1]
       /= serdeDumpsTyped(call.serde, call.args.metadata)[1]

\* C17: a put whose serializer reports different type tags for the
\* checkpoint and the metadata ends with the type mismatch error, has issued
\* no HSET and no EXPIRE, and the store is the store it was called on.
C17_TypeMismatchNoWrite ==
  (last.op = "put" /\ TagsDiffer(last))
    => /\ last.pc = "done"
       /\ last.res = Error("SerializationMismatchError")
       /\ last.calls = << >>
       /\ db = last.before

\* C17 witness: a put of a saver with ttl and the tagging serializer has
\* failed with the mismatch error on a store that holds the checkpoint
C17_Witness ==
  /\ last.op = "put"
  /\ TagsDiffer(last)
  /\ last.ttl = MaxTtl
  /\ last.res = Error("SerializationMismatchError")
  /\ DOMAIN db /= {}

\* the HSET of the put succeeded and then the EXPIRE failed, or the process
\* crashed between the two
ExpireMissed(call) ==
  /\ call.op = "put"
  /\ call.ttl /= NoTtl
  /\ call.pc = "done"
  /\ \/ /\ Len(call.calls) = 2
        /\ call.calls[1].cmd = "hset" /\ call.calls[1].ok
        /\ call.calls[2].cmd = "expire" /\ ~call.calls[2].ok
     \/ /\ Len(call.calls) = 1
        /\ call.calls[1].cmd = "hset" /\ call.calls[1].ok
        /\ call.res = Crashed

-----------------------------------------------------------------------------
(* putWrites call by call: valid and invalid arguments, savers with and    *)
(* without ttl, two tasks writing on one checkpoint                        *)

\* putWrites without the check of task_id
putWritesPrepareAnyTask(serde, config, writes, task_id) ==
  IF IsUndefinedObject(config) THEN Error("ValidationError")
  ELSE IF ~writes.isArray THEN Error("ValidationError")
  ELSE
    LET thread_id == Configurable(config, "thread_id")
        checkpoint_ns == Configurable(config, "checkpoint_ns")
        checkpoint_id == Configurable(config, "checkpoint_id")
    IN
    IF thread_id = Undefined \/ checkpoint_ns = Undefined \/ checkpoint_id = Undefined
      THEN Error("ValidationError")
    ELSE
      LET dumpedWrites == dumpWrites(writes.items)
      IN  [writes |->
             [i \in 1..Len(dumpedWrites) |->
                [key |-> makeRedisCheckpointWritesKey(thread_id, checkpoint_ns,
                                                      checkpoint_id, task_id, i - 1),
                 fields |-> dumpedWrites[i]]],
           res |-> Void]

\* a value JSON.stringify throws on: an object that holds itself
Circular == [circular |-> TRUE]

\* serde.dumpsTyped(value) throws
Unserializable(value) == "circular" \in DOMAIN value

\* the first position of writes (from 0) whose value cannot be serialized,
\* or the length of writes
RECURSIVE FirstUnserializable(_, _)
FirstUnserializable(items, idx) ==
  IF idx >= Len(items) THEN idx
  ELSE IF Unserializable(items[idx + 1].value) THEN idx
  ELSE FirstUnserializable(items, idx + 1)

\* putWrites serializing each write when its turn to be stored comes: the
\* writes before the first one that cannot be serialized are stored
putWritesPrepareOneByOne(serde, config, writes, task_id) ==
  IF IsUndefinedObject(config) THEN Error("ValidationError")
  ELSE IF ~writes.isArray THEN Error("ValidationError")
  ELSE IF Falsy(task_id) THEN Error("ValidationError")
  ELSE IF ~IsString(task_id) THEN Error("ValidationError")
  ELSE
    LET thread_id == Configurable(config, "thread_id")
        checkpoint_ns == Configurable(config, "checkpoint_ns")
        checkpoint_id == Configurable(config, "checkpoint_id")
    IN
    IF thread_id = Undefined \/ checkpoint_ns = Undefined \/ checkpoint_id = Undefined
      THEN Error("ValidationError")
    ELSE
      LET n == FirstUnserializable(writes.items, 0)
          dumpedWrites == dumpWrites(SubSeq(writes.items, 1, n))
      IN  [writes |->
             [i \in 1..Len(dumpedWrites) |->
                [key |-> makeRedisCheckpointWritesKey(thread_id, checkpoint_ns,
                                                      checkpoint_id, task_id, i - 1),
                 fields |-> dumpedWrites[i]]],
           res |-> IF n < Len(writes.items) THEN Error("SerializationError")
                   ELSE Void]

\* putWrites up to its first store call: the error it throws, or the keys
\* and the hashes it is going to write, in the order of the loop; dumpWrites
\* maps over the whole array before the loop begins
putWritesPrepare(serde, config, writes, task_id) ==
  IF IsUndefinedObject(config) THEN Error("ValidationError")
  ELSE IF ~writes.isArray THEN Error("ValidationError")
  ELSE IF Falsy(task_id) THEN Error("ValidationError")
  ELSE IF ~IsString(task_id) THEN Error("ValidationError")
  ELSE
    LET thread_id == Configurable(config, "thread_id")
        checkpoint_ns == Configurable(config, "checkpoint_ns")
        checkpoint_id == Configurable(config, "checkpoint_id")
    IN
    IF thread_id = Undefined \/ checkpoint_ns = Undefined \/ checkpoint_id = Undefined
      THEN Error("ValidationError")
    ELSE IF FirstUnserializable(writes.items, 0) < Len(writes.items)
      THEN Error("SerializationError")
    ELSE
      LET dumpedWrites == dumpWrites(writes.items)
      IN  [writes |->
             [i \in 1..Len(dumpedWrites) |->
                [key |-> makeRedisCheckpointWritesKey(thread_id, checkpoint_ns,
                                                      checkpoint_id, task_id, i - 1),
                 fields |-> dumpedWrites[i]]],
           res |-> Void]

StartPutWrites(ttl, serde, config, writes, task_id) ==
  /\ Idle
  /\ db' = db
  /\ last' = Begin("putWrites", ttl, serde,
                   [config |-> config, writes |-> writes, task_id |-> task_id],
                   putWritesPrepare(serde, config, writes, task_id), db)

\* the longest array passed to putWrites
MaxWrites == 2

\* the [channel, value] pair the tasks write
StepItem == [channel |-> <<"c">>, value |-> [str |-> <<"m">>]]

\* the writes passed to putWrites: arrays of zero to MaxWrites pairs
StepArrays ==
  { [isArray |-> TRUE, items |-> [i \in 1..n |-> StepItem]] : n \in 0..MaxWrites }

\* a writes argument that is not an array
NotAnArray == [isArray |-> FALSE, items |-> << >>]

\* the configs without one of thread_id, checkpoint_ns, checkpoint_id, and
\* no config at all
StepBadConfigs ==
  { UndefinedObject,
    [checkpoint_ns |-> EmptyNs, checkpoint_id |-> IdA],
    [thread_id |-> Thread1, checkpoint_id |-> IdA],
    [thread_id |-> Thread1, checkpoint_ns |-> EmptyNs] }

\* the task ids that are no task id: none, the empty string, a number
StepBadTasks == { Undefined, << >>, TaskNumber }

\* the calls of putWrites: the valid ones, and the ones with one argument
\* that is not valid
WriteCalls ==
  [config : {PinnedConfig}, writes : StepArrays, task_id : Tasks]
    \cup [config : StepBadConfigs, writes : StepArrays, task_id : {TaskX}]
    \cup [config : {PinnedConfig}, writes : {NotAnArray}, task_id : {TaskX}]
    \cup [config : {PinnedConfig}, writes : StepArrays, task_id : StepBadTasks]

WritesCall ==
  \E ttl \in {NoTtl, MaxTtl}, call \in WriteCalls :
    StartPutWrites(ttl, DefaultSerde, call.config, call.writes, call.task_id)

NextWriteSteps ==
  WritesCall \/ HsetOk \/ HsetFails \/ ExpireOk \/ ExpireFails \/ Crash

SpecWriteSteps == Init /\ [][NextWriteSteps]_vars

\* writes is not an array, task_id is empty or not a string, config is
\* missing, or one of thread_id, checkpoint_ns, checkpoint_id is absent
InvalidWritesArgument(args) ==
  \/ ~args.writes.isArray
  \/ args.task_id = << >>
  \/ ~IsString(args.task_id)
  \/ IsUndefinedObject(args.config)
  \/ Configurable(args.config, "thread_id") = Undefined
  \/ Configurable(args.config, "checkpoint_ns") = Undefined
  \/ Configurable(args.config, "checkpoint_id") = Undefined

\* C18: a putWrites whose writes is not an array, whose task_id is empty or
\* not a string, whose config is missing or lacks thread_id, checkpoint_ns
\* or checkpoint_id ends with an error, has issued no store call, and the
\* store is the store it was called on.
C18_PutWritesValidationNoEffect ==
  (last.op = "putWrites" /\ InvalidWritesArgument(last.args))
    => /\ last.pc = "done"
       /\ IsError(last.res)
       /\ last.calls = << >>
       /\ db = last.before

\* C18 witness: a putWrites of two pairs with a number as task_id has failed
\* on a store that holds writes
C18_Witness ==
  /\ last.op = "putWrites"
  /\ last.args.task_id = TaskNumber
  /\ last.args.writes.isArray
  /\ Len(last.args.writes.items) = 2
  /\ ~IsUndefinedObject(last.args.config)
  /\ IsError(last.res)
  /\ DOMAIN db /= {}

\* the keys the call is going to write, and the ones at positions 1..k
KeysOfCall(call) == {call.writes[i].key : i \in 1..Len(call.writes)}

KeysUpTo(call, k) == {call.writes[i].key : i \in 1..k}

\* a putWrites with valid arguments on a store with no write of its task
OnFreshTask(call) ==
  /\ call.op = "putWrites"
  /\ ~InvalidWritesArgument(call.args)
  /\ \A key \in DOMAIN call.before :
       IF IsWriteKey(key)
         THEN parseRedisCheckpointWritesKey(key).task_id /= call.args.task_id
         ELSE TRUE

\* the last store call of the call is an HSET that failed
HsetFailed(call) ==
  /\ call.calls /= << >>
  /\ call.calls[Len(call.calls)].cmd = "hset"
  /\ ~call.calls[Len(call.calls)].ok

-----------------------------------------------------------------------------
(* The key codec on its own: keys are built from bounded strings, with and *)
(* without the separator in them, and parsed back                          *)

\* the longest thread_id, checkpoint_ns and checkpoint_id of the codec runs
MaxLen == 2

CodecChars == {"a", ":"}

CodecStrings == UNION {[1..n -> CodecChars] : n \in 0..MaxLen}

CodecTasks == {<< >>, TaskX, <<"x", ":">>}

\* idx is a number or null
CodecIdxs == {NullIdx, 0, 12}

ColonFree(s) == ":" \notin Range(s)

\* keys of neither family, and keys whose first segment only begins with
\* the literal of a family
ForeignKeys ==
  { <<"a", ":", "a">>, << >>,
    CheckpointLiteral \o <<"s", ":", "1", ":", ":", "a">>,
    WritesLiteral,
    CheckpointLiteral }

\* the arguments of one run of the codec
InitCodec ==
  /\ db = EmptyDb
  /\ last \in [op : {"arguments"}, thread_id : CodecStrings,
               checkpoint_ns : CodecStrings, checkpoint_id : CodecStrings,
               task_id : CodecTasks, idx : CodecIdxs]

\* parseRedisCheckpointKey(makeRedisCheckpointKey(...))
CheckpointKeyRoundTrip ==
  /\ last.op = "arguments"
  /\ db' = db
  /\ last' = [op |-> "checkpointKey", arguments |-> last,
              res |-> parseRedisCheckpointKey(
                        makeRedisCheckpointKey(last.thread_id, last.checkpoint_ns,
                                               last.checkpoint_id))]

\* parseRedisCheckpointWritesKey(makeRedisCheckpointWritesKey(...))
WritesKeyRoundTrip ==
  /\ last.op = "arguments"
  /\ db' = db
  /\ last' = [op |-> "writesKey", arguments |-> last,
              res |-> parseRedisCheckpointWritesKey(
                        makeRedisCheckpointWritesKey(last.thread_id,
                          last.checkpoint_ns, last.checkpoint_id, last.task_id,
                          last.idx))]

\* both parsers on one key: a key of either family or of none
ParseKey ==
  /\ last.op = "arguments"
  /\ db' = db
  /\ \E key \in { makeRedisCheckpointKey(last.thread_id, last.checkpoint_ns,
                                         last.checkpoint_id),
                  makeRedisCheckpointWritesKey(last.thread_id, last.checkpoint_ns,
                    last.checkpoint_id, last.task_id, last.idx) } \cup ForeignKeys :
       last' = [op |-> "parse", key |-> key,
                asCheckpoint |-> parseRedisCheckpointKey(key),
                asWrites |-> parseRedisCheckpointWritesKey(key)]

NextCodec == CheckpointKeyRoundTrip \/ WritesKeyRoundTrip \/ ParseKey

SpecCodec == InitCodec /\ [][NextCodec]_vars

\* the values of JavaScript by type, and ===
JsNumber(n) == [type |-> "number", value |-> n]

JsString(s) == [type |-> "string", value |-> s]

JsUndefined == [type |-> "undefined"]

StrictEquals(a, b) ==
  /\ a.type = b.type
  /\ IF a.type = "undefined" THEN TRUE ELSE a.value = b.value

\* the idx field of a parsed write key
ParsedIdx(parsed) ==
  IF parsed.idx = Undefined THEN JsUndefined ELSE JsString(parsed.idx)

ColonFreeArguments(a) ==
  /\ ColonFree(a.thread_id) /\ ColonFree(a.checkpoint_ns)
  /\ ColonFree(a.checkpoint_id) /\ ColonFree(a.task_id)

\* the three fields of the checkpoint key come back, and the four string
\* fields of the write key
StringFieldsReturned ==
  /\ (last.op = "checkpointKey" /\ ColonFreeArguments(last.arguments))
       => /\ ~IsError(last.res)
          /\ last.res.thread_id = last.arguments.thread_id
          /\ last.res.checkpoint_ns = last.arguments.checkpoint_ns
          /\ last.res.checkpoint_id = last.arguments.checkpoint_id
  /\ (last.op = "writesKey" /\ ColonFreeArguments(last.arguments))
       => /\ ~IsError(last.res)
          /\ last.res.thread_id = last.arguments.thread_id
          /\ last.res.checkpoint_ns = last.arguments.checkpoint_ns
          /\ last.res.checkpoint_id = last.arguments.checkpoint_id
          /\ last.res.task_id = last.arguments.task_id

\* C28 as claimed: for colon-free fields, parsing the built checkpoint key
\* returns the triple, and parsing the built write key returns the same five
\* fields, idx being undefined when the key was built with a null idx.
C28_KeyRoundTripSameFields ==
  /\ StringFieldsReturned
  /\ (last.op = "writesKey" /\ ColonFreeArguments(last.arguments))
       => IF last.arguments.idx = NullIdx
            THEN ParsedIdx(last.res) = JsUndefined
            ELSE StrictEquals(ParsedIdx(last.res), JsNumber(last.arguments.idx))

\* C28 amended: parsing the built write key returns the same four string
\* fields, and idx as the decimal string of the number the key was built
\* with, undefined when it was built with a null idx.
C28_KeyRoundTripIdxAsString ==
  /\ StringFieldsReturned
  /\ (last.op = "writesKey" /\ ColonFreeArguments(last.arguments))
       => IF last.arguments.idx = NullIdx
            THEN ParsedIdx(last.res) = JsUndefined
            ELSE StrictEquals(ParsedIdx(last.res),
                              JsString(NumToString(last.arguments.idx)))

\* C28 witness: a write key built with idx 12, an empty namespace and
\* colon-free fields has been parsed back
C28_Witness ==
  /\ last.op = "writesKey"
  /\ ColonFreeArguments(last.arguments)
  /\ last.arguments.idx = 12
  /\ last.arguments.checkpoint_ns = << >>
  /\ last.arguments.thread_id /= << >>
  /\ last.res.idx = <<"1", "2">>

\* the key begins with the characters of the literal
RECURSIVE StartsWith(_, _)
StartsWith(key, literal) ==
  IF literal = << >> THEN TRUE
  ELSE key /= << >> /\ Head(key) = Head(literal)
       /\ StartsWith(Tail(key), Tail(literal))

\* C30: parseRedisCheckpointKey fails with the key-format error on every key
\* that does not start with checkpoint, a write key included, and
\* parseRedisCheckpointWritesKey on every key that does not start with
\* writes, a checkpoint key included; so does each on a key whose first
\* segment is not its literal.
C30_WrongLiteralRejected ==
  last.op = "parse"
    => /\ ~StartsWith(last.key, CheckpointLiteral)
            => last.asCheckpoint = KeyFormatError
       /\ ~StartsWith(last.key, WritesLiteral)
            => last.asWrites = KeyFormatError
       /\ ~StartsWith(last.key, CheckpointLiteral \o <<":">>)
            /\ last.key /= CheckpointLiteral
            => last.asCheckpoint = KeyFormatError
       /\ ~StartsWith(last.key, WritesLiteral \o <<":">>)
            /\ last.key /= WritesLiteral
            => last.asWrites = KeyFormatError

\* C30 witness: a write key has been rejected by parseRedisCheckpointKey and
\* parsed by parseRedisCheckpointWritesKey
C30_Witness ==
  /\ last.op = "parse"
  /\ StartsWith(last.key, WritesLiteral \o <<":">>)
  /\ last.asCheckpoint = KeyFormatError
  /\ ~IsError(last.asWrites)
-----------------------------------------------------------------------------
(* Checkpoints whose thread_id, checkpoint_ns or checkpoint_id holds the   *)
(* separator                                                               *)

ColonThreads == {Thread1, <<"1", ":">>}

ColonNamespaces == {EmptyNs, <<":">>}

ColonIds == {IdA, <<":", "a">>}

\* put of a triple
ColonPut ==
  \E thread_id \in ColonThreads, checkpoint_ns \in ColonNamespaces,
     id \in ColonIds, v \in Versions :
    Put(NoTtl, [thread_id |-> thread_id, checkpoint_ns |-> checkpoint_ns],
        [id |-> id, v |-> v], [step |-> 1])

\* the serialized checkpoints with an id other than id
OtherCheckpoints(id) ==
  {BytesToRedisString(dumpsTyped([id |-> other, v |-> v])[2]) :
     other \in ColonIds \ {id}, v \in Versions}

\* put of a triple whose key holds the checkpoint of another triple
ColonPutOver ==
  \E thread_id \in ColonThreads, checkpoint_ns \in ColonNamespaces,
     id \in ColonIds, v \in Versions :
    /\ makeRedisCheckpointKey(thread_id, checkpoint_ns, id) \in DOMAIN db
    /\ HashGet(db[makeRedisCheckpointKey(thread_id, checkpoint_ns, id)].hash,
               "checkpoint") \in OtherCheckpoints(id)
    /\ Put(NoTtl, [thread_id |-> thread_id, checkpoint_ns |-> checkpoint_ns],
           [id |-> id, v |-> v], [step |-> 2])

NextColon == ColonPut \/ ColonPutOver

SpecColon == Init /\ [][NextColon]_vars

\* the triple a put stores under, and its key
TripleOfPut(call) ==
  [thread_id |-> call.config.thread_id,
   checkpoint_ns |-> call.config.checkpoint_ns,
   checkpoint_id |-> call.checkpoint.id]

KeyOfTriple(triple) ==
  makeRedisCheckpointKey(triple.thread_id, triple.checkpoint_ns,
                         triple.checkpoint_id)

HasColon(triple) ==
  ~ColonFree(triple.thread_id) \/ ~ColonFree(triple.checkpoint_ns)
    \/ ~ColonFree(triple.checkpoint_id)

\* the puts of two distinct triples, one after the other, went to one key
SameKeyPuts(first, second) ==
  /\ first.op = "put" /\ second.op = "put"
  /\ TripleOfPut(first) /= TripleOfPut(second)
  /\ KeyOfTriple(TripleOfPut(first)) = KeyOfTriple(TripleOfPut(second))

\* C29: the key built from a triple with a ':' in thread_id, checkpoint_ns
\* or checkpoint_id does not parse back to the triple; and when the puts of
\* two distinct triples build the same key, the second put adds no key and
\* leaves under the key the record of its own checkpoint in place of that of
\* the first.
C29_ColonCorruptsKey ==
  [][/\ (last'.op = "put" /\ HasColon(TripleOfPut(last')))
          => parseRedisCheckpointKey(KeyOfTriple(TripleOfPut(last')))
               /= TripleOfPut(last')
     /\ SameKeyPuts(last, last')
          => LET key == KeyOfTriple(TripleOfPut(last'))
             IN  /\ DOMAIN db' = DOMAIN db
                 /\ db'[key] = put(EmptyDb, NoTtl, last'.config, last'.checkpoint,
                                   last'.metadata).db[key]]_vars

\* C29 witness: a put has gone to the key that held the checkpoint of
\* another triple, and the store holds one record for the two
C29_Witness ==
  /\ last.op = "put"
  /\ last.metadata.step = 2
  /\ HasColon(TripleOfPut(last))
  /\ Cardinality(DOMAIN db) = 1
  /\ db[KeyOfTriple(TripleOfPut(last))]
       = put(EmptyDb, NoTtl, last.config, last.checkpoint,
             last.metadata).db[KeyOfTriple(TripleOfPut(last))]
-----------------------------------------------------------------------------
(* Write keys and the checkpoint they are stored for *)

\* the checkpoint key of the triple a write key carries
CheckpointKeyOf(writeKey) ==
  LET parsed == parseRedisCheckpointWritesKey(writeKey)
  IN  makeRedisCheckpointKey(parsed.thread_id, parsed.checkpoint_ns,
                             parsed.checkpoint_id)

\* C22: in every state of the store, after any sequence of put, putWrites,
\* deleteThread and expiry, each write key carries the thread_id, checkpoint_ns and
\* checkpoint_id of a checkpoint key that is in the store.
C22_WritesScopedToCheckpoint ==
  \A k \in DOMAIN db : IsWriteKey(k) => CheckpointKeyOf(k) \in DOMAIN db
-----------------------------------------------------------------------------
(* A checkpoint that is put again while it has pending writes *)

\* the first put of the checkpoint
AttachPut ==
  \E ttl \in {NoTtl, MaxTtl}, v \in Versions :
    /\ makeRedisCheckpointKey(Thread1, EmptyNs, IdA) \notin DOMAIN db
    /\ Put(ttl, [thread_id |-> Thread1, checkpoint_ns |-> EmptyNs],
           [id |-> IdA, v |-> v], [step |-> 1])

\* a put of the checkpoint while it is stored and has pending writes
AttachRePut ==
  \E ttl \in {NoTtl, MaxTtl}, v \in Versions :
    /\ makeRedisCheckpointKey(Thread1, EmptyNs, IdA) \in DOMAIN db
    /\ WriteKeys(db) /= {}
    /\ Put(ttl, [thread_id |-> Thread1, checkpoint_ns |-> EmptyNs],
           [id |-> IdA, v |-> v], [step |-> 2])

NextAttach == AttachPut \/ WritesPutWrites \/ AttachRePut \/ WritesGet

SpecAttach == Init /\ [][NextAttach]_vars

\* the keys of one family that a step leaves as they were
KeptAsTheyWere(keys) == \A k \in keys : k \in DOMAIN db' /\ db'[k] = db[k]

\* the (task_id, channel, value) triples of the write keys of a checkpoint
StoredWrites(d, config) ==
  {[task_id |-> parseRedisCheckpointWritesKey(k).task_id,
    channel |-> HashGet(d[k].hash, "channel"),
    value |-> loadsTyped(HashGet(d[k].hash, "type"),
                decodeCommaSeperatedString(HashGet(d[k].hash, "value")))] :
     k \in WriteKeysOf(d, config)}

\* putWrites leaves every checkpoint record as it was, and put every write
\* key
WritesAndCheckpointsApart ==
  [][/\ last'.op = "putWrites"
          => KeptAsTheyWere({k \in DOMAIN db : IsCheckpointKey(k)})
     /\ last'.op = "put"
          => KeptAsTheyWere(WriteKeys(db))]_vars

\* C23: putWrites leaves every checkpoint record as it was, put leaves every
\* write key as it was, and the getTuple that follows a put of a checkpoint
\* that had pending writes returns one triple for each write key, the
\* triples being the (task_id, channel, value) stored for the checkpoint.
C23_RePutKeepsWrites ==
  [][/\ last'.op = "putWrites"
          => KeptAsTheyWere({k \in DOMAIN db : IsCheckpointKey(k)})
     /\ last'.op = "put"
          => KeptAsTheyWere(WriteKeys(db))
     /\ (last.op = "put" /\ last.metadata.step = 2 /\ last'.op = "getTuple")
          => /\ IsTuple(last'.res)
             /\ Len(last'.res.pendingWrites)
                  = Cardinality(WriteKeysOf(db, PinnedConfig))
             /\ Range(last'.res.pendingWrites) = StoredWrites(db, PinnedConfig)]_vars
-----------------------------------------------------------------------------
(* The life of a key: two threads, savers with and without ttl, every      *)
(* method of the saver, and time                                           *)

\* the thread ids passed to deleteThread: the two threads, and one that is
\* the character *
ErasedThreads == Threads \cup {Star}

LifePut ==
  \E ttl \in {NoTtl, MaxTtl}, thread_id \in Threads :
    Put(ttl, [thread_id |-> thread_id, checkpoint_ns |-> EmptyNs],
        [id |-> IdA, v |-> 1], [step |-> 1])

LifePutWrites ==
  \E ttl \in {NoTtl, MaxTtl}, thread_id \in Threads :
    PutWrites(ttl,
              [thread_id |-> thread_id, checkpoint_ns |-> EmptyNs,
               checkpoint_id |-> IdA],
              [isArray |-> TRUE,
               items |-> <<[channel |-> <<"c">>, value |-> [str |-> <<"m">>]]>>],
              TaskX)

LifeGet ==
  \E thread_id \in Threads :
    GetTuple([thread_id |-> thread_id, checkpoint_ns |-> EmptyNs])

LifeList ==
  \E thread_id \in Threads :
    List([thread_id |-> thread_id, checkpoint_ns |-> EmptyNs],
         [before |-> UndefinedObject, limit |-> NumUndefined])

LifeDelete == \E threadId \in ErasedThreads : DeleteThread(threadId)

NextLife == LifePut \/ LifePutWrites \/ LifeGet \/ LifeList \/ LifeDelete \/ Tick

SpecLife == Init /\ [][NextLife]_vars

\* C24: a checkpoint key leaves the store only by a deleteThread of its
\* thread or by the end of its expiry; put and putWrites remove no key; and
\* getTuple and list leave the store, every record and every expiry, as it
\* was.
C24_KeyLifecycle ==
  [][/\ \A k \in DOMAIN db :
          (IsCheckpointKey(k) /\ k \notin DOMAIN db')
            => \/ last'.op = "deleteThread"
                    /\ last'.threadId = parseRedisCheckpointKey(k).thread_id
               \/ last'.op = "tick" /\ db[k].ttl = 1
     /\ last'.op \in {"put", "putWrites"} => DOMAIN db \subseteq DOMAIN db'
     /\ last'.op \in {"getTuple", "list"} => db' = db]_vars
-----------------------------------------------------------------------------
(* The reading methods call by call. A call that is under way is the       *)
(* record last, as for put and putWrites; between two of its store calls   *)
(* other clients of the store act and time passes                          *)

\* the rejection of a store call, which list, deleteThread and
\* _getCheckpointKey let through as it is
ConnectionError == Error("ConnectionError")

\* a store call of a reading method is issued
Asked(call, cmd, arg, ok) ==
  [call EXCEPT !.calls = Append(@, [cmd |-> cmd, arg |-> arg, ok |-> ok])]

\* HDEL key field, by another client: the key goes with its last field
HDEL(d, key, field) ==
  LET hash == {p \in d[key].hash : p[1] /= field}
  IN  IF hash = {} THEN DEL(d, {key}) ELSE [d EXCEPT ![key].hash = hash]

\* list(config, options) is called and its generator is started
StartList(config, options) ==
  /\ Idle
  /\ db' = db
  /\ last' = [op |-> "list", args |-> [config |-> config, options |-> options],
              pc |-> "keys", calls |-> << >>, keys |-> << >>,
              idx |-> 0, yielded |-> << >>, fetched |-> << >>, res |-> Running]

\* the generator has no key left: it returns
ListReturns(call) ==
  IF call.idx < Len(call.keys) THEN call
  ELSE [call EXCEPT !.pc = "done",
                    !.res = [yielded |-> call.yielded, done |-> TRUE]]

\* connection.keys(pattern) succeeds, in some order; filterKeys
ListKeysOk ==
  /\ ~Idle
  /\ last.op = "list"
  /\ last.pc = "keys"
  /\ db' = db
  /\ \E keys \in Enumerations(MatchingKeys(db, ListPattern(last.args.config))) :
       last' = ListReturns(
                 [Asked(last, "keys", ListPattern(last.args.config), TRUE)
                    EXCEPT !.pc = "fetch",
                           !.keys = filterKeys(keys, last.args.options.before,
                                               last.args.options.limit)])

\* connection.keys(pattern) fails: the generator throws
ListKeysFails ==
  /\ ~Idle
  /\ last.op = "list"
  /\ last.pc = "keys"
  /\ db' = db
  /\ last' = [Asked(last, "keys", ListPattern(last.args.config), FALSE)
                EXCEPT !.pc = "done", !.res = ConnectionError]

\* one round of the loop of list with the test of the two fields left out
ListFetchUnchecked ==
  /\ ~Idle
  /\ last.op = "list"
  /\ last.pc = "fetch"
  /\ db' = db
  /\ LET key == last.keys[last.idx + 1]
         data == HGETALL(db, key)
         tuple == parseRedisCheckpointData(key, data, UndefinedArray)
         fetched == [Asked(last, "hgetall", key, TRUE)
                       EXCEPT !.idx = @ + 1,
                              !.fetched = Append(@, [key |-> key, data |-> data])]
     IN  last' = IF IsError(tuple)
                   THEN [fetched EXCEPT !.pc = "done", !.res = tuple]
                   ELSE ListReturns([fetched EXCEPT !.yielded = Append(@, tuple)])

\* one round of the loop of list with the key fetched again at the next round
ListFetchAgain ==
  /\ ~Idle
  /\ last.op = "list"
  /\ last.pc = "fetch"
  /\ Len(last.yielded) < 3
  /\ db' = db
  /\ LET key == last.keys[last.idx + 1]
         data == HGETALL(db, key)
         tuple == parseRedisCheckpointData(key, data, UndefinedArray)
         fetched == [Asked(last, "hgetall", key, TRUE)
                       EXCEPT !.fetched = Append(@, [key |-> key, data |-> data])]
     IN  last' = IF Falsy(HashGet(data, "checkpoint")) THEN ListReturns([fetched EXCEPT !.idx = @ + 1])
                 ELSE IF Falsy(HashGet(data, "metadata")) THEN ListReturns([fetched EXCEPT !.idx = @ + 1])
                 ELSE IF IsError(tuple)
                   THEN [fetched EXCEPT !.pc = "done", !.res = tuple]
                 ELSE [fetched EXCEPT !.yielded = Append(@, tuple)]

\* one round of the loop of list: connection.hgetall(key) succeeds, and the
\* record is yielded when it holds a checkpoint and a metadata field
ListFetchOk ==
  /\ ~Idle
  /\ last.op = "list"
  /\ last.pc = "fetch"
  /\ db' = db
  /\ LET key == last.keys[last.idx + 1]
         data == HGETALL(db, key)
         tuple == parseRedisCheckpointData(key, data, UndefinedArray)
         fetched == [Asked(last, "hgetall", key, TRUE)
                       EXCEPT !.idx = @ + 1,
                              !.fetched = Append(@, [key |-> key, data |-> data])]
     IN  last' = IF Falsy(HashGet(data, "checkpoint")) THEN ListReturns(fetched)
                 ELSE IF Falsy(HashGet(data, "metadata")) THEN ListReturns(fetched)
                 ELSE IF IsError(tuple)
                   THEN [fetched EXCEPT !.pc = "done", !.res = tuple]
                 ELSE ListReturns([fetched EXCEPT !.yielded = Append(@, tuple)])

\* connection.hgetall(key) fails: the generator throws
ListFetchFails ==
  /\ ~Idle
  /\ last.op = "list"
  /\ last.pc = "fetch"
  /\ db' = db
  /\ last' = [Asked(last, "hgetall", last.keys[last.idx + 1], FALSE)
                EXCEPT !.pc = "done", !.res = ConnectionError]

\* another client puts a checkpoint
OtherPut(ttl, config, checkpoint, metadata) ==
  /\ db' = put(db, ttl, config, checkpoint, metadata).db
  /\ db' /= db
  /\ UNCHANGED last

\* another client deletes a thread that has keys
OtherDeleteThread(threadId) ==
  /\ db' = deleteThread(db, threadId)
  /\ db' /= db
  /\ UNCHANGED last

\* another client takes a field out of a record
OtherHdel ==
  /\ \E key \in DOMAIN db, field \in {"checkpoint", "metadata"} :
       /\ field \in HashFields(db[key].hash)
       /\ db' = HDEL(db, key, field)
  /\ UNCHANGED last

\* a second passes while a call may be under way
TimePasses ==
  /\ \E k \in DOMAIN db : db[k].ttl /= NoExpiry
  /\ db' = Expire(db)
  /\ UNCHANGED last

\* the callers of the listing: one thread, the empty namespace
StepListOptions ==
  [before : {UndefinedObject}, limit : {NumUndefined, MaxLimit}]

StepListCall ==
  \E options \in StepListOptions :
    StartList([thread_id |-> Thread1, checkpoint_ns |-> Undefined], options)

\* another saver, without ttl, puts one of three checkpoints
StepOtherPut ==
  \E id \in AllIds :
    OtherPut(NoTtl, [thread_id |-> Thread1, checkpoint_ns |-> EmptyNs],
             [id |-> id, v |-> 1], [step |-> 1])

\* another saver, with a ttl of one second, puts a checkpoint
StepOtherPutExpiring ==
  OtherPut(1, [thread_id |-> Thread1, checkpoint_ns |-> EmptyNs],
           [id |-> IdA, v |-> 1], [step |-> 1])

StepOtherDelete == OtherDeleteThread(Thread1)

NextListSteps ==
  \/ StepListCall
  \/ ListKeysOk
  \/ ListFetchOk
  \/ StepOtherPut
  \/ StepOtherPutExpiring
  \/ StepOtherDelete
  \/ OtherHdel
  \/ TimePasses

SpecListSteps == Init /\ [][NextListSteps]_vars

\* last is a list call, under way or ended
IsListCall == IF "pc" \in DOMAIN last THEN last.op = "list" ELSE FALSE

\* a fetched record held a checkpoint and a metadata field
HeldBoth(entry) ==
  {"checkpoint", "metadata"} \subseteq HashFields(entry.data)

\* the tuples of the fetched records that held both fields, in order
RECURSIVE TuplesOf(_)
TuplesOf(fetched) ==
  IF fetched = << >> THEN << >>
  ELSE IF HeldBoth(Head(fetched))
    THEN <<parseRedisCheckpointData(Head(fetched).key, Head(fetched).data,
                                    UndefinedArray)>> \o TuplesOf(Tail(fetched))
  ELSE TuplesOf(Tail(fetched))

\* C26: while checkpoints are removed by other callers or by expiry, or lose
\* their checkpoint or metadata field, a list call skips the keys whose record
\* lacks one of the two fields when it is fetched and raises no error; the
\* tuples it yields are those of the records that held both fields when they
\* were fetched, in the order of the fetches.
C26_ListSkipsIncomplete ==
  IsListCall
    => /\ ~IsError(last.res)
       /\ last.yielded = TuplesOf(last.fetched)

\* C26 witness: a list call ended that fetched a key removed after the
\* enumeration, a record without its metadata field, and a record it yielded
C26_Witness ==
  /\ IsListCall
  /\ last.pc = "done"
  /\ \E i \in 1..Len(last.fetched) : last.fetched[i].data = {}
  /\ \E i \in 1..Len(last.fetched) :
       /\ "checkpoint" \in HashFields(last.fetched[i].data)
       /\ "metadata" \notin HashFields(last.fetched[i].data)
  /\ Len(last.yielded) = 1
-----------------------------------------------------------------------------
(* The end of a listing. The generator of list goes on when the store has  *)
(* answered its call, and the store answers every call, with a reply or    *)
(* with an error: the answers to a list call are taken under weak          *)
(* fairness. The steps of the other clients of the store are not, they may *)
(* go on for ever                                                          *)

\* the store answers the call a list call is waiting for
ListAnswered == ListKeysFails \/ ListFetchFails \/ ListKeysOk \/ ListFetchOk

NextListAnswers == NextListSteps \/ ListKeysFails \/ ListFetchFails

SpecListFair == Init /\ [][NextListAnswers]_vars /\ WF_vars(ListAnswered)

\* the key of a yielded tuple
YieldedKey(tuple) ==
  makeRedisCheckpointKey(tuple.config.thread_id, tuple.config.checkpoint_ns,
                         tuple.config.checkpoint_id)

\* the keys of the tuples a list call has yielded
YieldedKeys(call) == [i \in 1..Len(call.yielded) |-> YieldedKey(call.yielded[i])]

NoDuplicates(seq) == \A i, j \in 1..Len(seq) : seq[i] = seq[j] => i = j

\* the KEYS calls a call has made
KeysCalls(call) == {i \in 1..Len(call.calls) : call.calls[i].cmd = "keys"}

IsListRunning == IF IsListCall THEN last.pc /= "done" ELSE FALSE

IsListDone == IF IsListCall THEN last.pc = "done" ELSE FALSE

\* what a step leaves of a list call
ListScansOnce ==
  /\ IsListCall'
  /\ Cardinality(KeysCalls(last')) = (IF last'.pc = "keys" THEN 0 ELSE 1)
  /\ last'.pc = "keys"
       => last'.keys = << >> /\ last'.yielded = << >> /\ last'.fetched = << >>
  /\ (IsListCall /\ last.pc = "keys" /\ last'.pc /= "keys" /\ ~IsError(last'.res))
       => /\ Range(last'.keys) \subseteq MatchingKeys(db, ListPattern(last.args.config))
          /\ last.args.options.limit = NumUndefined
               => Range(last'.keys) = MatchingKeys(db, ListPattern(last.args.config))
  /\ (IsListCall /\ last.pc = "fetch") => last'.keys = last.keys
  /\ Range(YieldedKeys(last')) \subseteq Range(last'.keys)
  /\ NoDuplicates(YieldedKeys(last'))
  /\ Len(last'.fetched) <= Len(last'.keys)

\* C27: a list call ends, with a finite sequence, while other callers keep
\* putting checkpoints into the thread: it enumerates the keys once, from the
\* store as it is at that call, the keys it yields are among the enumerated
\* ones (a key put after the enumeration is not yielded), no key is yielded
\* twice, and the next list call starts from nothing and enumerates again.
C27_ListTerminates ==
  /\ [][IsListCall' => ListScansOnce]_vars
  /\ IsListRunning ~> IsListDone

\* C27 witness: an unlimited list call ended having yielded a tuple while the
\* store holds a whole record, put after the enumeration, that it did not
\* yield
C27_Witness ==
  /\ IsListDone
  /\ last.args.options.limit = NumUndefined
  /\ Len(last.yielded) > 0
  /\ \E k \in MatchingKeys(db, ListPattern(last.args.config)) :
       /\ k \notin Range(last.keys)
       /\ {"checkpoint", "metadata"} \subseteq HashFields(db[k].hash)
-----------------------------------------------------------------------------
(* getTuple and deleteThread call by call, with store calls that fail      *)

\* the pattern _getCheckpointKey passes to KEYS
ResolvePattern(config) ==
  makeRedisCheckpointKey(Configurable(config, "thread_id"),
                         Nullish(Configurable(config, "checkpoint_ns"), <<>>), Star)

\* the checkpoint key a getTuple call has resolved
ResolvedKey(call) ==
  getCheckpointKey(Configurable(call.args.config, "thread_id"),
                   Nullish(Configurable(call.args.config, "checkpoint_ns"), <<>>),
                   Configurable(call.args.config, "checkpoint_id"),
                   call.all_keys)

\* the call keeps the hash the store answers its hgetall of key with; read
\* holds the hashes of the call, as a keyspace
Fetched(call, d, key) ==
  [call EXCEPT !.read = [k \in DOMAIN @ \cup {key} |->
                           IF k = key THEN [hash |-> HGETALL(d, key), ttl |-> NoExpiry]
                           ELSE @[k]]]

\* getTuple(config) is called: it throws on a missing config or thread_id,
\* and goes to _getCheckpointKey, which asks the store when the config has
\* no checkpoint_id
StartGetTuple(config) ==
  /\ Idle
  /\ db' = db
  /\ last' = [op |-> "getTuple", args |-> [config |-> config],
              calls |-> << >>, all_keys |-> << >>, matchingKeys |-> << >>,
              idx |-> 0, read |-> EmptyDb,
              pc |-> IF IsUndefinedObject(config) THEN "done"
                     ELSE IF Falsy(Configurable(config, "thread_id")) THEN "done"
                     ELSE IF Falsy(Configurable(config, "checkpoint_id"))
                       THEN "resolve"
                     ELSE "hgetall",
              res |-> IF IsUndefinedObject(config) THEN Error("ValidationError")
                      ELSE IF Falsy(Configurable(config, "thread_id"))
                        THEN Error("ValidationError")
                      ELSE Running]

\* the keys call of _getCheckpointKey succeeds
GetResolveOk ==
  /\ ~Idle
  /\ last.op = "getTuple"
  /\ last.pc = "resolve"
  /\ db' = db
  /\ \E keys \in Enumerations(MatchingKeys(db, ResolvePattern(last.args.config))) :
       last' = IF Len(keys) = 0
                 THEN [Asked(last, "keys", ResolvePattern(last.args.config), TRUE)
                         EXCEPT !.pc = "done", !.res = UndefinedObject]
                 ELSE [Asked(last, "keys", ResolvePattern(last.args.config), TRUE)
                         EXCEPT !.pc = "hgetall", !.all_keys = keys]

\* the keys call of _getCheckpointKey fails: getTuple throws what it threw
GetResolveFails ==
  /\ ~Idle
  /\ last.op = "getTuple"
  /\ last.pc = "resolve"
  /\ db' = db
  /\ last' = [Asked(last, "keys", ResolvePattern(last.args.config), FALSE)
                EXCEPT !.pc = "done", !.res = ConnectionError]

\* connection.hgetall(checkpointKey) succeeds
GetHgetallOk ==
  /\ ~Idle
  /\ last.op = "getTuple"
  /\ last.pc = "hgetall"
  /\ db' = db
  /\ last' = [Fetched(Asked(last, "hgetall", ResolvedKey(last), TRUE),
                      db, ResolvedKey(last))
                EXCEPT !.pc = "keys"]

\* a failed hgetall getTuple answers with undefined
GetHgetallFailsNotFound ==
  /\ ~Idle
  /\ last.op = "getTuple"
  /\ last.pc = "hgetall"
  /\ db' = db
  /\ last' = [Asked(last, "hgetall", ResolvedKey(last), FALSE)
                EXCEPT !.pc = "done", !.res = UndefinedObject]

\* connection.hgetall(checkpointKey) fails: getTuple throws
GetHgetallFails ==
  /\ ~Idle
  /\ last.op = "getTuple"
  /\ last.pc = "hgetall"
  /\ db' = db
  /\ last' = [Asked(last, "hgetall", ResolvedKey(last), FALSE)
                EXCEPT !.pc = "done", !.res = RedisError]

\* connection.keys(writesKey) succeeds; without write keys getTuple returns
GetKeysOk ==
  /\ ~Idle
  /\ last.op = "getTuple"
  /\ last.pc = "keys"
  /\ db' = db
  /\ \E keys \in Enumerations(MatchingKeys(db,
                     WritesPattern(last.args.config, ResolvedKey(last)))) :
       last' = IF Len(keys) = 0
                 THEN [Asked(last, "keys",
                             WritesPattern(last.args.config, ResolvedKey(last)), TRUE)
                         EXCEPT !.pc = "done",
                                !.res = getTuple(last.read, last.args.config,
                                                 last.all_keys, keys)]
                 ELSE [Asked(last, "keys",
                             WritesPattern(last.args.config, ResolvedKey(last)), TRUE)
                         EXCEPT !.pc = "writes", !.matchingKeys = keys]

\* connection.keys(writesKey) fails: getTuple throws
GetKeysFails ==
  /\ ~Idle
  /\ last.op = "getTuple"
  /\ last.pc = "keys"
  /\ db' = db
  /\ last' = [Asked(last, "keys",
                    WritesPattern(last.args.config, ResolvedKey(last)), FALSE)
                EXCEPT !.pc = "done", !.res = RedisError]

\* one hgetall of the Promise.all succeeds, the answers taken in the order
\* of the calls; after the last one getTuple returns what it makes of the
\* hashes it has read
GetWriteOk ==
  /\ ~Idle
  /\ last.op = "getTuple"
  /\ last.pc = "writes"
  /\ db' = db
  /\ last' = IF last.idx + 1 < Len(last.matchingKeys)
               THEN [Fetched(Asked(last, "hgetall",
                                   last.matchingKeys[last.idx + 1], TRUE),
                             db, last.matchingKeys[last.idx + 1])
                       EXCEPT !.idx = @ + 1]
               ELSE [Fetched(Asked(last, "hgetall",
                                   last.matchingKeys[last.idx + 1], TRUE),
                             db, last.matchingKeys[last.idx + 1])
                       EXCEPT !.idx = @ + 1, !.pc = "done",
                              !.res = getTuple(
                                        Fetched(last, db,
                                                last.matchingKeys[last.idx + 1]).read,
                                        last.args.config,
                                        last.all_keys, last.matchingKeys)]

\* one hgetall of the Promise.all fails: getTuple throws
GetWriteFails ==
  /\ ~Idle
  /\ last.op = "getTuple"
  /\ last.pc = "writes"
  /\ db' = db
  /\ last' = [Asked(last, "hgetall", last.matchingKeys[last.idx + 1], FALSE)
                EXCEPT !.pc = "done", !.res = ConnectionError]

\* the two patterns of deleteThread
DeleteCheckpointPattern(threadId) == makeRedisCheckpointKey(threadId, <<>>, Star)

DeleteWritesPattern(threadId) ==
  makeRedisCheckpointWritesKey(threadId, <<>>, Star, Star, NullIdx)

\* deleteThread(threadId) is called
StartDeleteThread(threadId) ==
  /\ Idle
  /\ db' = db
  /\ last' = [op |-> "deleteThread", args |-> [threadId |-> threadId],
              calls |-> << >>, checkpointKeys |-> {}, writeKeys |-> {},
              pc |-> "checkpoints", res |-> Running]

\* connection.keys(checkpointPattern) succeeds
DeleteCheckpointKeysOk ==
  /\ ~Idle
  /\ last.op = "deleteThread"
  /\ last.pc = "checkpoints"
  /\ db' = db
  /\ last' = [Asked(last, "keys", DeleteCheckpointPattern(last.args.threadId), TRUE)
                EXCEPT !.pc = "writes",
                       !.checkpointKeys =
                          MatchingKeys(db, DeleteCheckpointPattern(last.args.threadId))]

\* connection.keys(checkpointPattern) fails: deleteThread throws
DeleteCheckpointKeysFails ==
  /\ ~Idle
  /\ last.op = "deleteThread"
  /\ last.pc = "checkpoints"
  /\ db' = db
  /\ last' = [Asked(last, "keys", DeleteCheckpointPattern(last.args.threadId), FALSE)
                EXCEPT !.pc = "done", !.res = ConnectionError]

\* connection.keys(writesPattern) succeeds; deleteThread returns when the
\* two replies are empty
DeleteWriteKeysOk ==
  /\ ~Idle
  /\ last.op = "deleteThread"
  /\ last.pc = "writes"
  /\ db' = db
  /\ last' = IF last.checkpointKeys
                  \cup MatchingKeys(db, DeleteWritesPattern(last.args.threadId)) = {}
               THEN [Asked(last, "keys", DeleteWritesPattern(last.args.threadId), TRUE)
                       EXCEPT !.pc = "done", !.res = Void]
               ELSE [Asked(last, "keys", DeleteWritesPattern(last.args.threadId), TRUE)
                       EXCEPT !.pc = "del",
                              !.writeKeys =
                                 MatchingKeys(db, DeleteWritesPattern(last.args.threadId))]

\* connection.keys(writesPattern) fails: deleteThread throws
DeleteWriteKeysFails ==
  /\ ~Idle
  /\ last.op = "deleteThread"
  /\ last.pc = "writes"
  /\ db' = db
  /\ last' = [Asked(last, "keys", DeleteWritesPattern(last.args.threadId), FALSE)
                EXCEPT !.pc = "done", !.res = ConnectionError]

\* connection.del(...allKeys) succeeds
DeleteDelOk ==
  /\ ~Idle
  /\ last.op = "deleteThread"
  /\ last.pc = "del"
  /\ db' = DEL(db, last.checkpointKeys \cup last.writeKeys)
  /\ last' = [Asked(last, "del", last.checkpointKeys \cup last.writeKeys, TRUE)
                EXCEPT !.pc = "done", !.res = Void]

\* connection.del(...allKeys) fails: deleteThread throws
DeleteDelFails ==
  /\ ~Idle
  /\ last.op = "deleteThread"
  /\ last.pc = "del"
  /\ db' = db
  /\ last' = [Asked(last, "del", last.checkpointKeys \cup last.writeKeys, FALSE)
                EXCEPT !.pc = "done", !.res = ConnectionError]

-----------------------------------------------------------------------------
(* Every method of one saver, call by call, on a store whose calls may     *)
(* fail                                                                    *)

FailPutCall ==
  \E ttl \in {NoTtl, MaxTtl} :
    StartPut(ttl, DefaultSerde, [thread_id |-> Thread1, checkpoint_ns |-> EmptyNs],
             [id |-> IdA, v |-> 1], [step |-> 1])

FailPutWritesCall ==
  \E ttl \in {NoTtl, MaxTtl}, writes \in StepArrays :
    StartPutWrites(ttl, DefaultSerde, PinnedConfig, writes, TaskX)

FailGetCall ==
  \E config \in {[thread_id |-> Thread1, checkpoint_ns |-> EmptyNs], PinnedConfig} :
    StartGetTuple(config)

FailListCall ==
  StartList([thread_id |-> Thread1, checkpoint_ns |-> Undefined],
            [before |-> UndefinedObject, limit |-> NumUndefined])

FailDeleteCall == StartDeleteThread(Thread1)

NextFailures ==
  \/ FailPutCall
  \/ FailPutWritesCall
  \/ FailGetCall
  \/ FailListCall
  \/ FailDeleteCall
  \/ HsetOk
  \/ HsetFails
  \/ ExpireOk
  \/ ExpireFails
  \/ GetResolveOk
  \/ GetResolveFails
  \/ GetHgetallOk
  \/ GetHgetallFails
  \/ GetKeysOk
  \/ GetKeysFails
  \/ GetWriteOk
  \/ GetWriteFails
  \/ ListKeysOk
  \/ ListKeysFails
  \/ ListFetchOk
  \/ ListFetchFails
  \/ DeleteCheckpointKeysOk
  \/ DeleteCheckpointKeysFails
  \/ DeleteWriteKeysOk
  \/ DeleteWriteKeysFails
  \/ DeleteDelOk
  \/ DeleteDelFails

SpecFailures == Init /\ [][NextFailures]_vars

\* a store call of the call failed
SomeCallFailed(call) == \E i \in 1..Len(call.calls) : ~call.calls[i].ok

\* C21: when a store call issued by put, putWrites, getTuple, list or
\* deleteThread fails, the operation ends there with an error: it issues no
\* further store call and returns no config, tuple, undefined, listing or
\* completed delete.
C21_FailuresNotSwallowed ==
  (IF "pc" \in DOMAIN last THEN SomeCallFailed(last) ELSE FALSE)
    => /\ last.pc = "done"
       /\ IsError(last.res)
       /\ ~last.calls[Len(last.calls)].ok
       /\ \A i \in 1..(Len(last.calls) - 1) : last.calls[i].ok

\* C21 witness: a getTuple on a checkpoint with two pending writes threw at
\* the hgetall of the second write, after three store calls that succeeded
C21_Witness ==
  /\ "pc" \in DOMAIN last
  /\ last.op = "getTuple"
  /\ last.pc = "done"
  /\ Len(last.calls) = 4
  /\ ~last.calls[4].ok
  /\ IsError(last.res)
-----------------------------------------------------------------------------
(* Two calls under way at once: a caller issues a put or a putWrites for   *)
(* one checkpoint and, without waiting for it, another for a different     *)
(* checkpoint; the store takes their calls one at a time, in any order     *)

ThreadColon == <<"1", ":">>

ColonNs == <<":">>

\* the (thread_id, checkpoint_ns, checkpoint_id) the two calls are made for
PairTriples ==
  { <<Thread1, EmptyNs, IdA>>, <<Thread1, EmptyNs, IdB>>,
    <<ThreadColon, EmptyNs, IdA>>, <<Thread1, ColonNs, IdA>> }

\* the n-th call of a pair on a triple: a put, or a putWrites of MaxWrites
\* pairs; the two calls carry different data
PairCall(op, ttl, triple, n, d) ==
  IF op = "put"
    THEN Begin("put", ttl, DefaultSerde,
               [config |-> [thread_id |-> triple[1], checkpoint_ns |-> triple[2]],
                checkpoint |-> [id |-> triple[3], v |-> n],
                metadata |-> [step |-> n]],
               putPrepare(DefaultSerde,
                          [thread_id |-> triple[1], checkpoint_ns |-> triple[2]],
                          [id |-> triple[3], v |-> n], [step |-> n]),
               d)
    ELSE Begin("putWrites", ttl, DefaultSerde,
               [config |-> [thread_id |-> triple[1], checkpoint_ns |-> triple[2],
                            checkpoint_id |-> triple[3]],
                writes |-> [isArray |-> TRUE,
                            items |-> [i \in 1..MaxWrites |->
                                         [channel |-> <<"c">>,
                                          value |-> [step |-> n]]]],
                task_id |-> TaskX],
               putWritesPrepare(DefaultSerde,
                                [thread_id |-> triple[1], checkpoint_ns |-> triple[2],
                                 checkpoint_id |-> triple[3]],
                                [isArray |-> TRUE,
                                 items |-> [i \in 1..MaxWrites |->
                                              [channel |-> <<"c">>,
                                               value |-> [step |-> n]]]],
                                TaskX),
               d)

\* last is a pair of calls
IsPair == IF "pc" \in DOMAIN last THEN last.op = "pair" ELSE FALSE

\* the pairs are issued on a store of fewer keys than this
MaxPairKeys == 2

\* two calls are issued by one saver for two different triples
PairStart ==
  /\ Idle
  /\ Cardinality(DOMAIN db) < MaxPairKeys
  /\ db' = db
  /\ \E ttl \in {NoTtl, MaxTtl}, first \in {"put", "putWrites"},
        second \in {"put", "putWrites"}, t1 \in PairTriples, t2 \in PairTriples :
       /\ t1 /= t2
       /\ last' = [op |-> "pair", pc |-> "run", before |-> db,
                   calls |-> <<PairCall(first, ttl, t1, 1, db),
                               PairCall(second, ttl, t2, 2, db)>>]

\* the pair is over when its two calls are
PairProceeds(pair) ==
  IF \A i \in 1..2 : pair.calls[i].pc = "done"
    THEN [pair EXCEPT !.pc = "done"] ELSE pair

\* the hset of a call that finds the key stored replaces the checkpoint and
\* its type only
PairHsetCheckpointOnly(i) ==
  /\ IsPair
  /\ last.calls[i].pc = "hset"
  /\ db' = HSET(db, last.calls[i].writes[last.calls[i].idx + 1].key,
                IF last.calls[i].writes[last.calls[i].idx + 1].key \in DOMAIN db
                  THEN {p \in last.calls[i].writes[last.calls[i].idx + 1].fields :
                          p[1] \in {"checkpoint", "type"}}
                  ELSE last.calls[i].writes[last.calls[i].idx + 1].fields)
  /\ last' = PairProceeds(
               [last EXCEPT !.calls[i] =
                  Proceed(Issued(@, "hset", TRUE), ~FalsyNum(@.ttl))])

\* connection.hset(key, data) of the i-th call of the pair succeeds
PairHsetOk(i) ==
  /\ IsPair
  /\ last.calls[i].pc = "hset"
  /\ db' = HSET(db, last.calls[i].writes[last.calls[i].idx + 1].key,
                last.calls[i].writes[last.calls[i].idx + 1].fields)
  /\ last' = PairProceeds(
               [last EXCEPT !.calls[i] =
                  Proceed(Issued(@, "hset", TRUE), ~FalsyNum(@.ttl))])

\* connection.expire(key, this.ttl) of the i-th call of the pair succeeds
PairExpireOk(i) ==
  /\ IsPair
  /\ last.calls[i].pc = "expire"
  /\ db' = EXPIRE(db, last.calls[i].writes[last.calls[i].idx + 1].key,
                  last.calls[i].ttl)
  /\ last' = PairProceeds(
               [last EXCEPT !.calls[i] = Proceed(Issued(@, "expire", TRUE), FALSE)])

PairFirstHset == PairHsetOk(1)

PairSecondHset == PairHsetOk(2)

PairFirstExpire == PairExpireOk(1)

PairSecondExpire == PairExpireOk(2)

NextPairs ==
  PairStart \/ PairFirstHset \/ PairSecondHset \/ PairFirstExpire \/ PairSecondExpire

SpecPairs == Init /\ [][NextPairs]_vars

\* the store a call leaves when it runs alone on the store d
RunAlone(d, call) ==
  IF call.op = "put"
    THEN put(d, call.ttl, call.args.config, call.args.checkpoint,
             call.args.metadata).db
    ELSE putWrites(d, call.ttl, call.args.config, call.args.writes,
                   call.args.task_id).db

\* the triple a call is made for
TripleOfCall(call) ==
  IF call.op = "put"
    THEN <<call.args.config.thread_id, call.args.config.checkpoint_ns,
           call.args.checkpoint.id>>
    ELSE <<call.args.config.thread_id, call.args.config.checkpoint_ns,
           call.args.config.checkpoint_id>>

\* the pair ended as if its calls had run one after the other, and both
\* returned
AsOneAfterTheOther(pair) ==
  /\ \/ db = RunAlone(RunAlone(pair.before, pair.calls[1]), pair.calls[2])
     \/ db = RunAlone(RunAlone(pair.before, pair.calls[2]), pair.calls[1])
  /\ \A i \in 1..2 : ~IsError(pair.calls[i].res)
  /\ \A i \in 1..2 : pair.calls[i].res = pair.calls[i].returns

\* C25: whatever the order in which the store takes the calls of a put or
\* putWrites and of another put or putWrites for a different (thread_id,
\* checkpoint_ns, checkpoint_id), the store ends as if one of the two had run
\* after the other, and both calls return.
C25_NoCoordinationNeeded ==
  (IF IsPair THEN last.pc = "done" ELSE FALSE)
    => AsOneAfterTheOther(last)

\* the same for two triples without ':' in a field
PairsWithoutColon ==
  (IF IsPair
     THEN /\ last.pc = "done"
          /\ \A i \in 1..2 : \A j \in 1..3 : ColonFree(TripleOfCall(last.calls[i])[j])
     ELSE FALSE)
    => AsOneAfterTheOther(last)
-----------------------------------------------------------------------------
(* The construction of a saver. The ttl a caller passes is any value of    *)
(* JavaScript: a number is given in tenths, so that 1.5 is a number of the *)
(* model                                                                   *)

\* the number t / 10
Tenths(t) == [type |-> "number", tenths |-> t]

JsNaN == [type |-> "number", nan |-> TRUE]

\* null, whose typeof is 'object'
JsNull == [type |-> "object", null |-> TRUE]

\* a Redis client
Connection == [type |-> "object", client |-> TRUE]

\* !x for a value that is undefined, null or an object
IsNullish(x) == x.type = "undefined" \/ "null" \in DOMAIN x

NumberIsInteger(x) ==
  IF x.type /= "number" THEN FALSE
  ELSE IF "nan" \in DOMAIN x THEN FALSE
  ELSE x.tenths % 10 = 0

\* x <= 0 for a number
NotPositive(x) == IF "nan" \in DOMAIN x THEN FALSE ELSE x.tenths <= 0

\* the constructor without the test ttl <= 0
RedisSaverAnyInteger(params) ==
  IF IsNullish(params.connection) THEN Error("ValidationError")
  ELSE IF params.ttl.type = "undefined"
    THEN [connection |-> params.connection, ttl |-> params.ttl]
  ELSE IF params.ttl.type /= "number" THEN Error("ValidationError")
  ELSE IF ~NumberIsInteger(params.ttl) THEN Error("ValidationError")
  ELSE [connection |-> params.connection, ttl |-> params.ttl]

\* new RedisSaver({ connection, ttl }): the saver, or the error thrown
RedisSaver(params) ==
  IF IsNullish(params.connection) THEN Error("ValidationError")
  ELSE IF params.ttl.type = "undefined"
    THEN [connection |-> params.connection, ttl |-> params.ttl]
  ELSE IF params.ttl.type /= "number" THEN Error("ValidationError")
  ELSE IF ~NumberIsInteger(params.ttl) THEN Error("ValidationError")
  ELSE IF NotPositive(params.ttl) THEN Error("ValidationError")
  ELSE [connection |-> params.connection, ttl |-> params.ttl]

\* this.ttl as the methods of the model take it: undefined, or the integer
ThisTtl(saver) ==
  IF saver.ttl.type = "undefined" THEN NumUndefined ELSE saver.ttl.tenths \div 10

\* the parameters passed to the constructor
SaverTtls ==
  {JsUndefined, JsNull, JsString(<<"i">>), JsNaN}
    \cup {Tenths(t) : t \in {-10, 0, 15}}
    \cup {Tenths(10 * k) : k \in 1..MaxTtl}

SaverParams == [connection : {JsUndefined, JsNull, Connection}, ttl : SaverTtls]

\* new RedisSaver(params)
Construct ==
  /\ Idle
  /\ db' = db
  /\ \E params \in SaverParams :
       last' = [op |-> "construct", params |-> params, res |-> RedisSaver(params)]

\* new RedisSaver(params).put(config, checkpoint, metadata)
SaverPut ==
  /\ Idle
  /\ db' = db
  /\ \E params \in SaverParams, v \in Versions :
       /\ ~IsError(RedisSaver(params))
       /\ last' = Begin("put", ThisTtl(RedisSaver(params)), DefaultSerde,
                        [config |-> [thread_id |-> Thread1, checkpoint_ns |-> EmptyNs],
                         checkpoint |-> [id |-> IdA, v |-> v],
                         metadata |-> [step |-> 1]],
                        putPrepare(DefaultSerde,
                                   [thread_id |-> Thread1, checkpoint_ns |-> EmptyNs],
                                   [id |-> IdA, v |-> v], [step |-> 1]),
                        db)
                    @@ [saver |-> RedisSaver(params)]

\* new RedisSaver(params).putWrites(config, writes, task_id)
SaverPutWrites ==
  /\ Idle
  /\ db' = db
  /\ \E params \in SaverParams, writes \in StepArrays :
       /\ ~IsError(RedisSaver(params))
       /\ last' = Begin("putWrites", ThisTtl(RedisSaver(params)), DefaultSerde,
                        [config |-> PinnedConfig, writes |-> writes,
                         task_id |-> TaskX],
                        putWritesPrepare(DefaultSerde, PinnedConfig, writes, TaskX),
                        db)
                    @@ [saver |-> RedisSaver(params)]

NextSaver ==
  Construct \/ SaverPut \/ SaverPutWrites \/ HsetOk \/ ExpireOk \/ Tick

SpecSaver == Init /\ [][NextSaver]_vars

\* undefined, or a number that is a positive integer
UndefinedOrPositiveInteger(ttl) ==
  \/ ttl = JsUndefined
  \/ \E k \in 1..MaxTtl : ttl = Tenths(10 * k)

\* the expire calls a call has issued
ExpireCalls(call) == {i \in 1..Len(call.calls) : call.calls[i].cmd = "expire"}

\* C31: the construction of a saver succeeds exactly with a connection and a
\* ttl that is undefined or a positive integer, and keeps them; so every
\* expire call a saver issues carries the ttl of its construction, a
\* positive integer number of seconds.
C31_TtlPositiveInteger ==
  /\ last.op = "construct"
       => /\ IsError(last.res)
               <=> ~(/\ last.params.connection = Connection
                     /\ UndefinedOrPositiveInteger(last.params.ttl))
          /\ ~IsError(last.res) => last.res = last.params
  /\ (IF "saver" \in DOMAIN last THEN ExpireCalls(last) /= {} ELSE FALSE)
       => /\ last.saver.ttl /= JsUndefined
          /\ UndefinedOrPositiveInteger(last.saver.ttl)
          /\ last.saver.ttl = Tenths(10 * last.ttl)
          /\ \A i \in ExpireCalls(last) :
               db[last.calls[i].key].ttl \in 1..last.ttl

\* C31 witness: a saver constructed with a ttl of MaxTtl seconds has put a
\* checkpoint and issued its expire call
C31_Witness ==
  /\ "saver" \in DOMAIN last
  /\ last.op = "put"
  /\ last.pc = "done"
  /\ last.saver.ttl = Tenths(10 * MaxTtl)
  /\ ExpireCalls(last) /= {}
-----------------------------------------------------------------------------
(* getTuple call by call, while other clients put checkpoints and writes,  *)
(* delete the thread, and keys expire                                      *)

StepGetCall ==
  \E config \in {[thread_id |-> Thread1, checkpoint_ns |-> EmptyNs], PinnedConfig} :
    StartGetTuple(config)

\* another saver, without ttl, puts a checkpoint
GetOtherPut ==
  \E id \in CheckpointIds :
    OtherPut(NoTtl, [thread_id |-> Thread1, checkpoint_ns |-> EmptyNs],
             [id |-> id, v |-> 1], [step |-> 1])

\* another saver, with a ttl of one second, puts a checkpoint
GetOtherPutExpiring ==
  OtherPut(1, [thread_id |-> Thread1, checkpoint_ns |-> EmptyNs],
           [id |-> IdA, v |-> 1], [step |-> 1])

\* another client stores a pending write
OtherPutWrites(ttl, config, writes, task_id) ==
  /\ db' = putWrites(db, ttl, config, writes, task_id).db
  /\ db' /= db
  /\ UNCHANGED last

GetOtherPutWrites ==
  \E config \in {PinnedConfig} :
    OtherPutWrites(NoTtl, config, [isArray |-> TRUE, items |-> <<StepItem>>], TaskX)

NextGetSteps ==
  \/ StepGetCall
  \/ GetResolveOk
  \/ GetHgetallOk
  \/ GetKeysOk
  \/ GetWriteOk
  \/ GetOtherPut
  \/ GetOtherPutExpiring
  \/ GetOtherPutWrites
  \/ StepOtherDelete
  \/ TimePasses

SpecGetSteps == Init /\ [][NextGetSteps]_vars

\* last is a getTuple call that has ended
IsGetDone ==
  IF "pc" \in DOMAIN last THEN last.op = "getTuple" /\ last.pc = "done" ELSE FALSE

\* the call found its checkpoint key with KEYS and read an empty hash under it
RemovedAfterResolution(call) ==
  /\ call.all_keys /= << >>
  /\ ResolvedKey(call) \in DOMAIN call.read
  /\ call.read[ResolvedKey(call)].hash = {}

\* C32: a getTuple whose resolved checkpoint key is removed, by deleteThread
\* or by expiry, between the resolution of the key and the read of its hash
\* returns undefined or a whole tuple, and throws no error.
C32_GetTupleToleratesRemoval ==
  (IF IsGetDone THEN RemovedAfterResolution(last) ELSE FALSE)
    => IF IsError(last.res) THEN FALSE
       ELSE IF IsUndefinedObject(last.res) THEN TRUE
       ELSE IsTuple(last.res)
-----------------------------------------------------------------------------
(* A task that stores its writes a second time on the same checkpoint *)

\* C33: a getTuple for the checkpoint that follows a successful
\* putWrites(config, W2, task) returns, for this task, as many writes as W2
\* holds, also when the task had stored a longer array W1 on the checkpoint
\* before: no write of W1 with idx >= |W2| is returned.
C33_LaterPutWritesReplaces ==
  [][(/\ last.op = "putWrites"
      /\ ~IsError(last.res)
      /\ makeRedisCheckpointKey(last.config.thread_id, last.config.checkpoint_ns,
                                last.config.checkpoint_id) \in DOMAIN db
      /\ last'.op = "getTuple"
      /\ last'.config.checkpoint_id \in {last.config.checkpoint_id, Undefined})
       => /\ IsTuple(last'.res)
          /\ Len(WritesOfTask(last'.res.pendingWrites, last.task_id))
               = Len(last.writes.items)]_vars
-----------------------------------------------------------------------------
(* The order of the ids in list and in getTuple *)

\* the keys _getCheckpointKey may resolve for the listed thread and
\* namespace, one for every order of the KEYS reply
LatestKeys ==
  {getCheckpointKey(last.config.thread_id, NsOf(last.config), Undefined, all_keys) :
     all_keys \in Enumerations(MatchingKeys(db,
                    makeRedisCheckpointKey(last.config.thread_id,
                                           NsOf(last.config), Star)))}

\* C34: the last tuple yielded by a list without before and limit is the
\* checkpoint a getTuple without checkpoint_id returns for the same thread
\* and namespace: the sort of list and the comparison of _getCheckpointKey
\* are the same order of the ids.
C34_ListAndGetTupleAgree ==
  (/\ last.op = "list"
   /\ IsUndefinedObject(last.options.before)
   /\ last.options.limit = NumUndefined
   /\ Len(last.res.yielded) > 0)
    => LET tuple == last.res.yielded[Len(last.res.yielded)]
       IN  LatestKeys = {makeRedisCheckpointKey(tuple.config.thread_id,
                                                tuple.config.checkpoint_ns,
                                                tuple.config.checkpoint_id)}
-----------------------------------------------------------------------------
(* Reading one thread and namespace while others are stored: two threads,  *)
(* two namespaces, and reads that name a thread, or the character *        *)

\* the thread ids a read is called for
ReadThreads == Threads \cup {Star}

IsolationPut ==
  \E thread_id \in Threads, checkpoint_ns \in Namespaces :
    /\ Cardinality(CheckpointKeys(db)) < MaxCheckpoints
    /\ Put(NoTtl, [thread_id |-> thread_id, checkpoint_ns |-> checkpoint_ns],
           [id |-> IdA, v |-> 1], [step |-> 1])

IsolationPutWrites ==
  \E thread_id \in Threads, checkpoint_ns \in Namespaces :
    /\ PutWrites(NoTtl,
                 [thread_id |-> thread_id, checkpoint_ns |-> checkpoint_ns,
                  checkpoint_id |-> IdA],
                 [isArray |-> TRUE, items |-> <<StepItem>>], TaskX)
    /\ Cardinality(WriteKeys(db')) <= MaxWriteKeys

IsolationGet ==
  \E thread_id \in ReadThreads, checkpoint_ns \in Namespaces :
    GetTuple([thread_id |-> thread_id, checkpoint_ns |-> checkpoint_ns])

IsolationList ==
  \E thread_id \in ReadThreads, checkpoint_ns \in Namespaces :
    List([thread_id |-> thread_id, checkpoint_ns |-> checkpoint_ns],
         [before |-> UndefinedObject, limit |-> NumUndefined])

NextIsolation == IsolationPut \/ IsolationPutWrites \/ IsolationGet \/ IsolationList

SpecIsolation == Init /\ [][NextIsolation]_vars

\* the tuple is of the thread and namespace the read was called for
OfReadTarget(tuple) ==
  /\ tuple.config.thread_id = last.config.thread_id
  /\ tuple.config.checkpoint_ns = NsOf(last.config)

\* C35: getTuple and list called for a thread and namespace return only
\* checkpoints stored under exactly this thread and namespace, and the
\* pendingWrites of a tuple of getTuple are as many as the write keys stored
\* for exactly its checkpoint.
C35_ReadIsolation ==
  /\ (last.op = "getTuple" /\ IsTuple(last.res))
       => /\ OfReadTarget(last.res)
          /\ Len(last.res.pendingWrites)
               = Cardinality(WriteKeysOf(db, last.res.config))
  /\ last.op = "list"
       => \A i \in 1..Len(last.res.yielded) : OfReadTarget(last.res.yielded[i])

\* the same for the reads that name a thread by an id without *
ReadIsolationOfNamedThreads ==
  (IF last.op \in {"getTuple", "list"} THEN last.config.thread_id /= Star ELSE FALSE)
    => C35_ReadIsolation
-----------------------------------------------------------------------------
(* What deleteThread leaves to the other threads *)

\* C36: deleteThread(T) leaves every checkpoint key and every write key of
\* every other thread as it was, record and expiry, for thread ids without
\* a colon, a thread that has T as a prefix included.
C36_DeleteThreadFrame ==
  [][last'.op = "deleteThread"
       => \A k \in DOMAIN db :
            ThreadOfKey(k) /= last'.threadId
              => IF k \in DOMAIN db' THEN db'[k] = db[k] ELSE FALSE]_vars

\* the same for the calls with a thread id without *
DeleteNamedThreadFrame ==
  [][(last'.op = "deleteThread" /\ last'.threadId /= Star)
       => \A k \in DOMAIN db :
            ThreadOfKey(k) /= last'.threadId
              => IF k \in DOMAIN db' THEN db'[k] = db[k] ELSE FALSE]_vars
-----------------------------------------------------------------------------
(* Two puts of one (thread_id, checkpoint_ns, checkpoint_id) under way at  *)
(* the same time, by savers with and without ttl, the store read at every  *)
(* moment                                                                  *)

\* the checkpoint_id of the config of the n-th put: its parent
TwinParent(n) == IF n = 1 THEN Undefined ELSE IdB

\* the n-th put on checkpoint IdA of Thread1: its checkpoint, metadata and
\* parent are its own
TwinCall(ttl, n, d) ==
  Begin("put", ttl, DefaultSerde,
        [config |-> [thread_id |-> Thread1, checkpoint_ns |-> EmptyNs,
                     checkpoint_id |-> TwinParent(n)],
         checkpoint |-> [id |-> IdA, v |-> n],
         metadata |-> [step |-> n]],
        putPrepare(DefaultSerde,
                   [thread_id |-> Thread1, checkpoint_ns |-> EmptyNs,
                    checkpoint_id |-> TwinParent(n)],
                   [id |-> IdA, v |-> n], [step |-> n]),
        d)

\* two puts are issued for the same triple
TwinStart ==
  /\ Idle
  /\ db' = db
  /\ \E ttl1 \in {NoTtl} \cup 1..MaxTtl, ttl2 \in {NoTtl} \cup 1..MaxTtl :
       last' = [op |-> "pair", pc |-> "run", before |-> db,
                calls |-> <<TwinCall(ttl1, 1, db), TwinCall(ttl2, 2, db)>>]

NextTwins ==
  \/ TwinStart
  \/ PairFirstHset
  \/ PairSecondHset
  \/ PairFirstExpire
  \/ PairSecondExpire
  \/ TimePasses

SpecTwins == Init /\ [][NextTwins]_vars

TwinKey == makeRedisCheckpointKey(Thread1, EmptyNs, IdA)

\* the tuple holds the checkpoint, the metadata and the parent of one put
OfOnePut(tuple) ==
  \E n \in 1..2 :
    /\ tuple.checkpoint = [id |-> IdA, v |-> n]
    /\ tuple.metadata = [step |-> n]
    /\ tuple.parentConfig =
         IF n = 1 THEN UndefinedObject
         ELSE [thread_id |-> Thread1, checkpoint_ns |-> EmptyNs,
               checkpoint_id |-> IdB]

\* C37: at every moment of two puts to the same triple, in whatever order
\* the store takes their calls, the record that getTuple reads and the one
\* that list yields hold the checkpoint, the metadata and the parent pointer
\* of one single put.
C37_ConcurrentPutsNeverMix ==
  TwinKey \in DOMAIN db
    => LET tuple == getTuple(db, PinnedConfig, <<>>, <<>>)
           listed == list(db, [thread_id |-> Thread1, checkpoint_ns |-> EmptyNs],
                          [before |-> UndefinedObject, limit |-> NumUndefined],
                          <<TwinKey>>)
       IN  /\ IF IsTuple(tuple) THEN OfOnePut(tuple) ELSE FALSE
           /\ listed.done
           /\ Len(listed.yielded) = 1
           /\ OfOnePut(listed.yielded[1])

\* C37 witness: the store has taken the hset of both puts, that of the
\* second first, and none of the two has returned
C37_Witness ==
  IF IsPair
    THEN /\ last.pc = "run"
         /\ \A i \in 1..2 : last.calls[i].pc = "expire"
         /\ TwinKey \in DOMAIN db
         /\ getTuple(db, PinnedConfig, <<>>, <<>>).checkpoint = [id |-> IdA, v |-> 1]
    ELSE FALSE
-----------------------------------------------------------------------------
(* putWrites with values the serializer throws on *)

\* a [channel, value] pair whose value cannot be serialized
CircularItem == [channel |-> <<"c">>, value |-> Circular]

\* the arrays of up to MaxWrites pairs, each pair serializable or not
SerializeArrays ==
  { [isArray |-> TRUE, items |-> items] :
      items \in UNION { [1..n -> {StepItem, CircularItem}] : n \in 0..MaxWrites } }

SerializeCall ==
  \E ttl \in {NoTtl, MaxTtl}, writes \in SerializeArrays :
    StartPutWrites(ttl, DefaultSerde, PinnedConfig, writes, TaskX)

NextSerialize ==
  SerializeCall \/ HsetOk \/ HsetFails \/ ExpireOk \/ ExpireFails \/ Tick

SpecSerialize == Init /\ [][NextSerialize]_vars

\* last is a putWrites with a value that cannot be serialized
HasUnserializable ==
  IF "args" \in DOMAIN last
    THEN \E i \in 1..Len(last.args.writes.items) :
           Unserializable(last.args.writes.items[i].value)
    ELSE FALSE

\* C38: putWrites serializes all its writes before it stores any: a call
\* with an element whose serialization fails throws, issues no store call
\* and leaves the store as it found it.
C38_SerializeBeforeStore ==
  HasUnserializable
    => /\ last.pc = "done"
       /\ IsError(last.res)
       /\ last.calls = << >>
       /\ db = last.before

\* C38 witness: a putWrites whose first write can be serialized and whose
\* second cannot has thrown, on a store that holds writes of an earlier call
C38_Witness ==
  IF HasUnserializable
    THEN /\ Len(last.args.writes.items) = 2
         /\ ~Unserializable(last.args.writes.items[1].value)
         /\ IsError(last.res)
         /\ db /= EmptyDb
    ELSE FALSE
-----------------------------------------------------------------------------
(* The chain of parent pointers of the stored checkpoints *)

\* the key of the parent of the checkpoint stored under key: same thread and
\* namespace, the id in parent_checkpoint_id; undefined when the field is
\* empty
ParentKey(d, key) ==
  LET parsed == parseRedisCheckpointKey(key)
      parent == HashGet(d[key].hash, "parent_checkpoint_id")
  IN  IF Falsy(parent) THEN Undefined
      ELSE makeRedisCheckpointKey(parsed.thread_id, parsed.checkpoint_ns, parent)

\* following the parent pointers from key, over stored checkpoints, for at
\* most n steps, comes to target
RECURSIVE LeadsTo(_, _, _, _)
LeadsTo(d, key, target, n) ==
  IF n = 0 THEN FALSE
  ELSE
    LET parent == ParentKey(d, key)
    IN  IF parent = Undefined THEN FALSE
        ELSE IF parent = target THEN TRUE
        ELSE IF parent \notin DOMAIN d THEN FALSE
        ELSE LeadsTo(d, parent, target, n - 1)

\* C39: in every state the parent pointers of the stored checkpoints form
\* no cycle: following them from a stored checkpoint never comes back to
\* it, and no stored checkpoint is its own parent.
C39_HistoryAcyclic ==
  \A key \in CheckpointKeys(db) :
    ~LeadsTo(db, key, key, Cardinality(CheckpointKeys(db)))

====
